---- MODULE Spec2Model ----
(***************************************************************************)
(* Graph algorithms of src/graph/famous_algo: the single-source shortest   *)
(* path engines (bellman_ford, dijkstra), the all-pairs engines            *)
(* (floyd_warshall, johnson), the minimum spanning trees of kruskal (with   *)
(* its DisjointSet) and prim, and the directed-graph algorithms            *)
(* kahn_topological_sort, is_cyclic and Kosaraju.find_sccs.  Every         *)
(* algorithm is a state machine over its local variables; the inputs       *)
(* (vertex count, edge list, source) are drawn from bounded sets in the    *)
(* initial states.                                                         *)
(***************************************************************************)
EXTENDS Integers, Sequences, FiniteSets, TLC

VARIABLES
    pc,            \* position in the running function
    n,             \* number of vertices (V)
    edges,         \* edge list: sequence of <<u, v, weight>>
    source,        \* starting vertex
    graph,         \* adjacency list: graph[u] = sequence of <<v, weight>>
    distance,      \* distance table / matrix of the running function
    parents,       \* predecessor table of the running function
    updated,       \* bellman_ford: _updated
    pass,          \* bellman_ford: number of completed passes of range(n - 1)
    idx,           \* position of the running inner for loop (1-based)
    min_heap,      \* dijkstra: heap of <<dist, node>>, kept in pop order
    node,          \* dijkstra: popped node
    current_dist,  \* dijkstra: popped distance
    bf_result,     \* value returned by bellman_ford
    dj_result,     \* value returned by dijkstra
    matrix,        \* floyd_warshall: the weight matrix it is given
    fw_k,          \* floyd_warshall: position of the outer loop
    fw_i,          \* floyd_warshall: loop variable i
    fw_j,          \* floyd_warshall: loop variable j
    fw_result,     \* value returned by floyd_warshall
    h,             \* johnson: value returned by its bellman_ford
    new_adj,       \* johnson: reweighted adjacency list
    all_pairs,     \* johnson: rows appended so far
    jo_u,          \* johnson: loop variable u of Step 4
    jo_result,     \* value returned by johnson
    parent,        \* DisjointSet.parent
    rank,          \* DisjointSet.rank
    mst,           \* kruskal: edges accepted so far
    kr_i,          \* kruskal: position of the loop over the sorted edges
    kr_result,     \* value returned by kruskal
    visited,       \* prim: visited
    pr_heap,       \* prim: min_heap of <<weight, node, parent>>, in pop order
    pr_mst,        \* prim: mst, edges <<parent, node, weight>> accepted so far
    pr_result,     \* value returned by prim
    ka_adj,        \* kahn_topological_sort: adj
    in_degree,     \* kahn_topological_sort: in_degree
    queue,         \* kahn_topological_sort: queue
    topo_order,    \* kahn_topological_sort: topo_order
    ka_result,     \* value returned by kahn_topological_sort
    color,         \* is_cyclic: color
    graph_adj,     \* is_cyclic: graph_adj
    cy_result,     \* value returned by is_cyclic
    frames,        \* call stack of the running recursive function: frames
                   \* <<vertex, position of its loop over the neighbours>>
    loop_i,        \* loop variable i of the running for i in range(V)
    ko_graph,      \* Kosaraju: self.graph
    ko_visited,    \* Kosaraju.find_sccs: visited
    stack,         \* Kosaraju.find_sccs: stack
    reversed_graph, \* Kosaraju.find_sccs: reversed_graph.graph
    new_component, \* Kosaraju.find_sccs: new_component
    scc_list,      \* Kosaraju.find_sccs: scc_list
    ko_result,     \* value returned by Kosaraju.find_sccs
    ds_call,       \* DisjointSet: the last call, [op, x, y]
    ds_ret,        \* DisjointSet: the value the last call returned
    ds_err,        \* DisjointSet: the last call raised IndexError
    ds_calls,      \* DisjointSet: number of calls so far
    ds_before      \* DisjointSet: parent and rank when the last call began

apspVars == <<matrix, fw_k, fw_i, fw_j, fw_result, h, new_adj, all_pairs,
              jo_u, jo_result>>

ssspVars == <<source, updated, pass, idx, min_heap, node, current_dist,
              bf_result, dj_result>>

mstVars == <<parent, rank, mst, kr_i, kr_result>>

primVars == <<visited, pr_heap, pr_mst, pr_result>>

(* what the functions of one family leave alone *)
kahnVars == <<ka_adj, in_degree, queue, topo_order, ka_result>>

cyclicVars == <<color, graph_adj, cy_result>>

kosarajuVars == <<ko_graph, ko_visited, stack, reversed_graph, new_component,
                  scc_list, ko_result>>

dgVars == <<kahnVars, cyclicVars, kosarajuVars, frames, loop_i>>

dsVars == <<ds_call, ds_ret, ds_err, ds_calls, ds_before>>

notSSSP == <<apspVars, mstVars, primVars, dgVars, dsVars>>
notAPSP == <<ssspVars, mstVars, primVars, dgVars, dsVars>>
notMST == <<ssspVars, apspVars, primVars, dgVars, dsVars, graph, distance,
            parents>>
notPrim == <<ssspVars, apspVars, mstVars, dgVars, dsVars, edges, graph,
             distance, parents>>
notDG == <<ssspVars, apspVars, mstVars, primVars, dsVars, n, edges, graph,
           distance, parents>>
notDS == <<ssspVars, apspVars, primVars, dgVars, pc, n, edges, graph, distance,
           parents, mst, kr_i, kr_result>>
notKahn == <<notDG, cyclicVars, kosarajuVars, frames, loop_i>>
notCyclic == <<notDG, kahnVars, kosarajuVars>>
notKosaraju == <<notDG, kahnVars, cyclicVars>>

vars == <<pc, n, edges, graph, distance, parents, ssspVars, apspVars, mstVars,
          primVars, dgVars, dsVars>>

----------------------------------------------------------------------------
(* Bounds of the model *)

MaxN == 3
MaxEdges == 3
MaxW == 1
MaxNeg == 1
MaxV == 4
MaxArcs == 4
MaxCalls == 6
MaxPassN == 4
MaxPassEdges == 2

(* float("inf"): larger than every finite path weight of the model, and     *)
(* absorbing under addition (Add).                                          *)
INF == 1000

(* None, as the parent of a vertex without predecessor *)
None == -1

Weights == (0 - MaxNeg)..MaxW
Vertices(nn) == 0..(nn - 1)
EdgeSet(nn) == Vertices(nn) \X Vertices(nn) \X Weights
EdgeLists(nn) == UNION {[1..k -> EdgeSet(nn)] : k \in 0..MaxEdges}

(* the lists of directed edges (u, v) without weight *)
ArcLists(nn) ==
    UNION {[1..k -> Vertices(nn) \X Vertices(nn)] : k \in 0..MaxArcs}

(* inf + w = inf in float arithmetic *)
Add(a, b) == IF a = INF \/ b = INF THEN INF ELSE a + b

(* a value a function returns: None, or a distance table *)
Pending == [ret |-> "pending", table |-> <<>>]
RetNone == [ret |-> "None", table |-> <<>>]
RetTable(t) == [ret |-> "table", table |-> t]

(* adjacency list of a directed edge list: graph[u] = [(v, weight), ...] in
   the order of the edge list *)
AdjOf(nn, es) ==
    [u \in Vertices(nn) |->
        LET sel == SelectSeq(es, LAMBDA e : e[1] = u)
        IN  [i \in 1..Len(sel) |-> <<sel[i][2], sel[i][3]>>]]

(* to_adj(edges), _1_Dijkstra.py: the list has one entry per vertex up to
   the largest one named by an edge, and every edge is entered at both
   ends, in the order of the edge list *)
RECURSIVE dijkstra_to_adj_rows(_, _)
dijkstra_to_adj_rows(nn, es) ==
    IF es = <<>> THEN [u \in Vertices(nn) |-> <<>>]
    ELSE LET g == dijkstra_to_adj_rows(nn, SubSeq(es, 1, Len(es) - 1))
             e == es[Len(es)]
             g1 == [g EXCEPT ![e[1]] = Append(@, <<e[2], e[3]>>)]
         IN  [g1 EXCEPT ![e[2]] = Append(@, <<e[1], e[3]>>)]

dijkstra_to_adj(es) ==
    LET ends == {es[i][1] : i \in 1..Len(es)} \cup {es[i][2] : i \in 1..Len(es)}
        top == CHOOSE x \in ends : \A y \in ends : y <= x
    IN  dijkstra_to_adj_rows(1 + top, es)

----------------------------------------------------------------------------
(* bellman_ford(n, edges, source), _2_Bellman_ford.py *)

(* the relaxation test of one edge (and a faulty variant: <= for <) *)
CanRelax_OrEqual(d, u, v, weight) == d[u] # INF /\ d[u] + weight <= d[v]

CanRelax(d, u, v, weight) == d[u] # INF /\ d[u] + weight < d[v]

(* for _ in range(n - 1): whether the pass that ends now was the last one
   (and a faulty variant: range(n - 2)) *)
LastPass_OneShort(p, nn) == p + 1 >= nn - 2

LastPass(p, nn) == p + 1 >= nn - 1

BFStart ==
    /\ pc = "bf_start"
    /\ distance' = [v \in Vertices(n) |-> IF v = source THEN 0 ELSE INF]
    /\ parents' = [v \in Vertices(n) |-> None]
    /\ pass' = 0
    /\ idx' = 1
    /\ updated' = FALSE
    /\ pc' = IF n - 1 > 0 THEN "bf_relax" ELSE "bf_detect"
    /\ UNCHANGED notSSSP
    /\ UNCHANGED <<n, edges, source, graph, min_heap, node, current_dist,
                   bf_result, dj_result>>

(* one iteration of the inner for loop of Step 2 *)
BFRelaxEdge ==
    /\ pc = "bf_relax"
    /\ idx <= Len(edges)
    /\ LET u == edges[idx][1]
           v == edges[idx][2]
           weight == edges[idx][3]
       IN  IF CanRelax(distance, u, v, weight)
           THEN /\ distance' = [distance EXCEPT ![v] = distance[u] + weight]
                /\ parents' = [parents EXCEPT ![v] = u]
                /\ updated' = TRUE
           ELSE UNCHANGED <<distance, parents, updated>>
    /\ idx' = idx + 1
    /\ UNCHANGED notSSSP
    /\ UNCHANGED <<pc, n, edges, source, graph, pass, min_heap, node,
                   current_dist, bf_result, dj_result>>

(* end of one pass: break when nothing was updated, else the next pass *)
(* if not _updated: break (and a faulty variant that breaks after a pass
   with updates) *)
EarlyExit_OnUpdate(upd) == upd

EarlyExit(upd) == ~upd

BFEndPass ==
    /\ pc = "bf_relax"
    /\ idx > Len(edges)
    /\ IF EarlyExit(updated) \/ LastPass(pass, n)
       THEN pc' = "bf_detect"
       ELSE pc' = "bf_relax"
    /\ pass' = pass + 1
    /\ idx' = 1
    /\ updated' = FALSE
    /\ UNCHANGED notSSSP
    /\ UNCHANGED <<n, edges, source, graph, distance, parents, min_heap, node,
                   current_dist, bf_result, dj_result>>

(* Step 3 and the return: None when an edge can still be relaxed *)
BFDetect ==
    /\ pc = "bf_detect"
    /\ bf_result' =
          IF \E i \in 1..Len(edges) :
                CanRelax(distance, edges[i][1], edges[i][2], edges[i][3])
          THEN RetNone
          ELSE RetTable(distance)
    /\ pc' = "dj_start"
    /\ UNCHANGED notSSSP
    /\ UNCHANGED <<n, edges, source, graph, distance, parents, updated, pass,
                   idx, min_heap, node, current_dist, dj_result>>

----------------------------------------------------------------------------
(* dijkstra(n, graph, source), _1_Dijkstra.py *)

(* order of the heap's tuples (dist, node): Python's tuple comparison *)
TupleLess(a, b) == a[1] < b[1] \/ (a[1] = b[1] /\ a[2] < b[2])

(* new_distance = current_dist + weight (and a faulty variant: the weight of
   the edge alone) *)
NewDistance_WeightOnly(cd, weight) == weight

NewDistance(cd, weight) == cd + weight

(* the popped entry is stale: a better path to the node is already known
   (and a faulty variant: >= for >) *)
StaleEntry_OrEqual(cd, d) == cd >= d

StaleEntry(cd, d) == cd > d

(* heapq.heappush: the heap is kept as the sequence of its tuples in the
   order heappop returns them *)
HeapPush(heap, x) ==
    LET k == Cardinality({i \in 1..Len(heap) :
                             TupleLess(heap[i], x) \/ heap[i] = x})
    IN  SubSeq(heap, 1, k) \o <<x>> \o SubSeq(heap, k + 1, Len(heap))

(* A tentative distance below Floor is smaller than the weight of every
   simple path, so it is the weight of a walk through a negative cycle: from
   there the while loop pushes ever smaller distances and never ends.  The
   model follows the loop down to Floor only. *)
Floor == 0 - (MaxN * MaxNeg)

DijkstraStart ==
    /\ pc = "dj_start"
    /\ distance' = [v \in Vertices(n) |-> IF v = source THEN 0 ELSE INF]
    /\ parents' = [v \in Vertices(n) |-> None]
    /\ min_heap' = <<<<0, source>>>>
    /\ pc' = "dj_loop"
    /\ UNCHANGED notSSSP
    /\ UNCHANGED <<n, edges, source, graph, updated, pass, idx, node,
                   current_dist, bf_result, dj_result>>

(* heappop and the stale-entry test *)
DijkstraPop ==
    /\ pc = "dj_loop"
    /\ min_heap # <<>>
    /\ Head(min_heap)[1] >= Floor
    /\ current_dist' = Head(min_heap)[1]
    /\ node' = Head(min_heap)[2]
    /\ min_heap' = Tail(min_heap)
    /\ idx' = 1
    /\ pc' = IF StaleEntry(Head(min_heap)[1], distance[Head(min_heap)[2]])
             THEN "dj_loop"
             ELSE "dj_relax"
    /\ UNCHANGED notSSSP
    /\ UNCHANGED <<n, edges, source, graph, distance, parents, updated, pass,
                   bf_result, dj_result>>

(* one iteration of the for loop over graph[node] *)
DijkstraRelax ==
    /\ pc = "dj_relax"
    /\ idx <= Len(graph[node])
    /\ LET neighbor == graph[node][idx][1]
           weight == graph[node][idx][2]
           new_distance == NewDistance(current_dist, weight)
       IN  IF new_distance < distance[neighbor]
           THEN /\ distance' = [distance EXCEPT ![neighbor] = new_distance]
                /\ parents' = [parents EXCEPT ![neighbor] = node]
                /\ min_heap' = HeapPush(min_heap, <<new_distance, neighbor>>)
           ELSE UNCHANGED <<distance, parents, min_heap>>
    /\ idx' = idx + 1
    /\ UNCHANGED notSSSP
    /\ UNCHANGED <<pc, n, edges, source, graph, updated, pass, node,
                   current_dist, bf_result, dj_result>>

DijkstraEndFor ==
    /\ pc = "dj_relax"
    /\ idx > Len(graph[node])
    /\ pc' = "dj_loop"
    /\ UNCHANGED notSSSP
    /\ UNCHANGED <<n, edges, source, graph, distance, parents, updated, pass,
                   idx, min_heap, node, current_dist, bf_result, dj_result>>

(* the heap is empty: return distance *)
DijkstraReturn ==
    /\ pc = "dj_loop"
    /\ min_heap = <<>>
    /\ dj_result' = RetTable(distance)
    /\ pc' = "done"
    /\ UNCHANGED notSSSP
    /\ UNCHANGED <<n, edges, source, graph, distance, parents, updated, pass,
                   idx, min_heap, node, current_dist, bf_result>>

(* the loop goes on for ever (see Floor) *)
DijkstraUnbounded ==
    /\ pc = "dj_loop"
    /\ min_heap # <<>>
    /\ Head(min_heap)[1] < Floor
    /\ pc' = "dj_unbounded"
    /\ UNCHANGED notSSSP
    /\ UNCHANGED <<n, edges, source, graph, distance, parents, updated, pass,
                   idx, min_heap, node, current_dist, bf_result, dj_result>>

----------------------------------------------------------------------------
(* Reference semantics of the input graph, by enumeration of its simple paths
   and simple cycles *)

Min(S) == CHOOSE x \in S : \A y \in S : x <= y

(* the sequences of pairwise distinct vertices *)
DistinctSeqs ==
    [nn \in 1..(MaxN + 1) |->
        UNION {{p \in [1..k -> Vertices(nn)] :
                   \A i, j \in 1..k : i < j => p[i] # p[j]} : k \in 1..nn}]

SimpleSeqs(nn) == DistinctSeqs[nn]

(* weight of the lightest edge u -> v, INF without such an edge *)
MinEdgeW(es, u, v) ==
    LET ws == {es[i][3] : i \in {j \in 1..Len(es) : es[j][1] = u /\ es[j][2] = v}}
    IN  IF ws = {} THEN INF ELSE Min(ws)

RECURSIVE PathWeight(_, _)
PathWeight(es, p) ==
    IF Len(p) <= 1 THEN 0
    ELSE Add(MinEdgeW(es, p[1], p[2]), PathWeight(es, Tail(p)))

(* weight of a lightest simple path s -> v, INF when there is none *)
TrueDist(nn, es, s, v) ==
    LET ws == {PathWeight(es, p) :
                  p \in {q \in SimpleSeqs(nn) : q[1] = s /\ q[Len(q)] = v}}
    IN  IF ws \ {INF} = {} THEN INF ELSE Min(ws \ {INF})

TrueTable(nn, es, s) == [v \in Vertices(nn) |-> TrueDist(nn, es, s, v)]

Reachable(nn, es, s, v) == TrueDist(nn, es, s, v) # INF

CycleWeight(es, c) == Add(PathWeight(es, c), MinEdgeW(es, c[Len(c)], c[1]))

(* a negative-weight cycle through vertices reachable from s *)
NegCycleReachable(nn, es, s) ==
    \E c \in SimpleSeqs(nn) : CycleWeight(es, c) < 0 /\ Reachable(nn, es, s, c[1])

(* a negative-weight cycle anywhere *)
NegCycle(nn, es) == \E c \in SimpleSeqs(nn) : CycleWeight(es, c) < 0

NonNegative(es) == \A i \in 1..Len(es) : es[i][3] >= 0

----------------------------------------------------------------------------
(* floyd_warshall(graph), _3_Floyd_Warshall.py *)

(* the weight matrix of an edge list: 0 on the diagonal, INF where there is
   no edge, the weight of the lightest edge u -> v elsewhere *)
MatrixOf(nn, es) ==
    [a \in Vertices(nn) |->
        [b \in Vertices(nn) |-> IF a = b THEN 0 ELSE MinEdgeW(es, a, b)]]

(* the candidate distance of the test "distance[i][j] > distance[i][i] +
   distance[i][j]": the loop over the source vertices reuses the name i of
   the loop over the intermediate vertices, so the intermediate vertex the
   body reads is always i itself *)
FWCandidate(d, i, j) == Add(d[i][i], d[i][j])

FWStart ==
    /\ pc = "fw_start"
    /\ distance' = matrix
    /\ parents' = [a \in Vertices(n) |->
                      [b \in Vertices(n) |->
                          IF matrix[a][b] = INF \/ a = b THEN None ELSE a]]
    /\ fw_k' = 0
    /\ fw_i' = 0
    /\ fw_j' = 0
    /\ pc' = "fw_loop"
    /\ UNCHANGED notAPSP
    /\ UNCHANGED <<n, edges, graph, matrix, fw_result, h, new_adj, all_pairs,
                   jo_u, jo_result>>

(* the body of the three nested loops for one (i, j), then the step of the
   loops *)
FWCell ==
    /\ pc = "fw_loop"
    /\ IF distance[fw_i][fw_j] > FWCandidate(distance, fw_i, fw_j)
       THEN /\ distance' = [distance EXCEPT
                               ![fw_i][fw_j] = FWCandidate(distance, fw_i, fw_j)]
            /\ parents' = [parents EXCEPT ![fw_i][fw_j] = parents[fw_i][fw_j]]
       ELSE UNCHANGED <<distance, parents>>
    /\ IF fw_j < n - 1
       THEN /\ fw_j' = fw_j + 1
            /\ UNCHANGED <<fw_i, fw_k, pc>>
       ELSE IF fw_i < n - 1
       THEN /\ fw_j' = 0
            /\ fw_i' = fw_i + 1
            /\ UNCHANGED <<fw_k, pc>>
       ELSE IF fw_k < n - 1
       THEN /\ fw_j' = 0
            /\ fw_i' = 0
            /\ fw_k' = fw_k + 1
            /\ UNCHANGED pc
       ELSE /\ pc' = "fw_check"
            /\ UNCHANGED <<fw_i, fw_j, fw_k>>
    /\ UNCHANGED notAPSP
    /\ UNCHANGED <<n, edges, graph, matrix, fw_result, h, new_adj, all_pairs,
                   jo_u, jo_result>>

(* Step 3 and the return: None when an entry of the diagonal is negative *)
FWCheck ==
    /\ pc = "fw_check"
    /\ fw_result' = IF \E a \in Vertices(n) : distance[a][a] < 0
                    THEN RetNone
                    ELSE RetTable(distance)
    /\ pc' = "jo_start"
    /\ UNCHANGED notAPSP
    /\ UNCHANGED <<n, edges, graph, distance, parents, matrix, fw_k, fw_i,
                   fw_j, h, new_adj, all_pairs, jo_u, jo_result>>

----------------------------------------------------------------------------
(* bellman_ford, dijkstra and johnson of _4_Johnson.py *)

J_CanRelax(d, u, v, w) == d[u] # INF /\ d[u] + w < d[v]

(* one pass over the edges, from edge number k on *)
RECURSIVE J_RelaxEdges(_, _, _)
J_RelaxEdges(d, es, k) ==
    IF k > Len(es) THEN d
    ELSE LET u == es[k][1]
             v == es[k][2]
             w == es[k][3]
         IN  J_RelaxEdges(IF J_CanRelax(d, u, v, w)
                          THEN [d EXCEPT ![v] = d[u] + w]
                          ELSE d,
                          es, k + 1)

(* for _ in range(V - 1): always all the passes *)
RECURSIVE J_Passes(_, _, _)
J_Passes(d, es, count) ==
    IF count <= 0 THEN d ELSE J_Passes(J_RelaxEdges(d, es, 1), es, count - 1)

J_bellman_ford(V, es, s) ==
    LET d == J_Passes([v \in Vertices(V) |-> IF v = s THEN 0 ELSE INF], es, V - 1)
    IN  IF \E k \in 1..Len(es) : J_CanRelax(d, es[k][1], es[k][2], es[k][3])
        THEN RetNone
        ELSE RetTable(d)

(* the for loop over adj[u], from entry number k on: <<distance, pq>> *)
RECURSIVE J_RelaxAdj(_, _, _, _, _)
J_RelaxAdj(d, pq, adj_u, u, k) ==
    IF k > Len(adj_u) THEN <<d, pq>>
    ELSE LET v == adj_u[k][1]
             w == adj_u[k][2]
         IN  IF d[u] + w < d[v]
             THEN J_RelaxAdj([d EXCEPT ![v] = d[u] + w],
                             HeapPush(pq, <<d[u] + w, v>>), adj_u, u, k + 1)
             ELSE J_RelaxAdj(d, pq, adj_u, u, k + 1)

(* while pq *)
RECURSIVE J_WhilePq(_, _, _)
J_WhilePq(adj, d, pq) ==
    IF pq = <<>> THEN d
    ELSE LET curr_dist == Head(pq)[1]
             u == Head(pq)[2]
         IN  IF curr_dist > d[u]
             THEN J_WhilePq(adj, d, Tail(pq))
             ELSE LET r == J_RelaxAdj(d, Tail(pq), adj[u], u, 1)
                  IN  J_WhilePq(adj, r[1], r[2])

J_dijkstra(V, adj, s) ==
    J_WhilePq(adj, [v \in Vertices(V) |-> IF v = s THEN 0 ELSE INF], <<<<0, s>>>>)

(* "Convert adjacency list to edge list": the edges of graph[0], then of
   graph[1], ... *)
RECURSIVE J_EdgeList(_, _, _)
J_EdgeList(adj, V, u) ==
    IF u >= V THEN <<>>
    ELSE [k \in 1..Len(adj[u]) |-> <<u, adj[u][k][1], adj[u][k][2]>>]
         \o J_EdgeList(adj, V, u + 1)

(* the edges (new_vertex, v, 0) *)
J_ExtraEdges(V) == [k \in 1..V |-> <<V, k - 1, 0>>]

(* new_weight = w + h[u] - h[v] (and a faulty variant: the potentials
   swapped) *)
J_NewWeight_Swapped(w, hu, hv) == w - hu + hv

J_NewWeight(w, hu, hv) == w + hu - hv

(* dist[v] = dist[v] - h[u] + h[v], for the finite entries (and a faulty
   variant: the potentials swapped) *)
J_ConvertBack_Swapped(dv, hu, hv) == IF dv # INF THEN dv + hu - hv ELSE dv

J_ConvertBack(dv, hu, hv) == IF dv # INF THEN dv - hu + hv ELSE dv

(* edge list, extra node q, bellman_ford from q; return None when it does *)
JohnsonStart ==
    /\ pc = "jo_start"
    /\ LET V == n   \* len(graph)
           es == J_EdgeList(graph, V, 0) \o J_ExtraEdges(V)
           res == J_bellman_ford(V + 1, es, V)
       IN  /\ h' = res
           /\ IF res = RetNone
              THEN /\ jo_result' = RetNone
                   /\ pc' = "apsp_done"
              ELSE /\ jo_result' = jo_result
                   /\ pc' = "jo_reweight"
    /\ UNCHANGED notAPSP
    /\ UNCHANGED <<n, edges, graph, distance, parents, matrix, fw_k, fw_i,
                   fw_j, fw_result, new_adj, all_pairs, jo_u>>

(* Step 3: reweight the edges (the temporary edges removed) *)
JohnsonReweight ==
    /\ pc = "jo_reweight"
    /\ LET es == J_EdgeList(graph, n, 0)
       IN  new_adj' =
              [a \in Vertices(n) |->
                  LET sel == SelectSeq(es, LAMBDA e : e[1] = a)
                  IN  [k \in 1..Len(sel) |->
                          <<sel[k][2],
                            J_NewWeight(sel[k][3], h.table[a], h.table[sel[k][2]])>>]]
    /\ all_pairs' = <<>>
    /\ jo_u' = 0
    /\ pc' = "jo_dijkstra"
    /\ UNCHANGED notAPSP
    /\ UNCHANGED <<n, edges, graph, distance, parents, matrix, fw_k, fw_i,
                   fw_j, fw_result, h, jo_result>>

(* Step 4 for one u: dijkstra on new_adj, conversion back, append *)
JohnsonDijkstra ==
    /\ pc = "jo_dijkstra"
    /\ jo_u < n
    /\ LET dist == J_dijkstra(n, new_adj, jo_u)
           row == [v \in Vertices(n) |->
                      J_ConvertBack(dist[v], h.table[jo_u], h.table[v])]
       IN  all_pairs' = [a \in 0..jo_u |-> IF a = jo_u THEN row ELSE all_pairs[a]]
    /\ jo_u' = jo_u + 1
    /\ UNCHANGED notAPSP
    /\ UNCHANGED <<pc, n, edges, graph, distance, parents, matrix, fw_k, fw_i,
                   fw_j, fw_result, h, new_adj, jo_result>>

JohnsonReturn ==
    /\ pc = "jo_dijkstra"
    /\ jo_u >= n
    /\ jo_result' = RetTable(all_pairs)
    /\ pc' = "apsp_done"
    /\ UNCHANGED notAPSP
    /\ UNCHANGED <<n, edges, graph, distance, parents, matrix, fw_k, fw_i,
                   fw_j, fw_result, h, new_adj, all_pairs, jo_u>>

----------------------------------------------------------------------------
(* DisjointSet and kruskal(n, edges), Kruskal_MST.py *)

(* a list index as Python reads it: i from -size to -1 stands for size + i;
   an index below -size or from size on raises IndexError *)
InRange(size, i) == (0 - size) <= i /\ i < size

PyIndex(size, i) == IF i < 0 THEN size + i ELSE i

(* DisjointSet.find with path compression: <<root, parent afterwards>> (and
   a faulty variant that leaves the parents as they are) *)
RECURSIVE DS_find_NoCompression(_, _)
DS_find_NoCompression(par, x) ==
    LET i == PyIndex(Cardinality(DOMAIN par), x)
    IN  IF par[i] # x
        THEN <<DS_find_NoCompression(par, par[i])[1], par>>
        ELSE <<x, par>>

RECURSIVE DS_find(_, _)
DS_find(par, x) ==
    LET i == PyIndex(Cardinality(DOMAIN par), x)
    IN  IF par[i] # x
        THEN LET r == DS_find(par, par[i])
             IN  <<r[1], [r[2] EXCEPT ![i] = r[1]]>>
        ELSE <<x, par>>

(* the three branches of union by rank, on two different roots:
   <<parent afterwards, rank afterwards>> (and a faulty variant that attaches
   neither root) *)
DS_link_NoAttach(par, rnk, root_u, root_v) ==
    <<[par EXCEPT ![root_u] = root_u, ![root_v] = root_v], rnk>>

DS_link_NoRankBump(par, rnk, root_u, root_v) ==
    IF rnk[root_u] > rnk[root_v]
    THEN <<[par EXCEPT ![root_v] = root_u], rnk>>
    ELSE IF rnk[root_u] < rnk[root_v]
    THEN <<[par EXCEPT ![root_u] = root_v], rnk>>
    ELSE <<[par EXCEPT ![root_v] = root_u], rnk>>

DS_link_FirstSurvives(par, rnk, root_u, root_v) ==
    IF rnk[root_u] = rnk[root_v]
    THEN <<[par EXCEPT ![root_v] = root_u],
           [rnk EXCEPT ![root_u] = rnk[root_u] + 1]>>
    ELSE <<[par EXCEPT ![root_v] = root_u], rnk>>

DS_link(par, rnk, root_u, root_v) ==
    IF rnk[root_u] > rnk[root_v]
    THEN <<[par EXCEPT ![root_v] = root_u], rnk>>
    ELSE IF rnk[root_u] < rnk[root_v]
    THEN <<[par EXCEPT ![root_u] = root_v], rnk>>
    ELSE <<[par EXCEPT ![root_v] = root_u],
           [rnk EXCEPT ![root_u] = rnk[root_u] + 1]>>

(* DisjointSet.union: <<parent afterwards, rank afterwards>> (and a faulty
   variant without the return on equal roots) *)
DS_union_AlwaysLink(par, rnk, u, v) ==
    LET fu == DS_find(par, u)
        fv == DS_find(fu[2], v)
    IN  DS_link(fv[2], rnk, fu[1], fv[1])

DS_union(par, rnk, u, v) ==
    LET fu == DS_find(par, u)
        fv == DS_find(fu[2], v)
    IN  IF fu[1] = fv[1]
        THEN <<fv[2], rnk>>
        ELSE DS_link(fv[2], rnk, fu[1], fv[1])

(* edges.sort(key=lambda e: e[2]): a stable sort by weight (and a faulty
   variant that leaves the list as it is) *)
SortByWeight_Unsorted(es) == es

RECURSIVE SortByWeight(_)
SortByWeight(es) ==
    IF Len(es) <= 1 THEN es
    ELSE LET rest == SortByWeight(SubSeq(es, 1, Len(es) - 1))
             e == es[Len(es)]
             k == Cardinality({m \in 1..Len(rest) : rest[m][3] <= e[3]})
         IN  SubSeq(rest, 1, k) \o <<e>> \o SubSeq(rest, k + 1, Len(rest))

(* Step 1: sort the edges, ds = DisjointSet(n), mst = [] *)
KruskalStart ==
    /\ pc = "kr_start"
    /\ edges' = SortByWeight(edges)
    /\ parent' = [x \in Vertices(n) |-> x]
    /\ rank' = [x \in Vertices(n) |-> 0]
    /\ mst' = <<>>
    /\ kr_i' = 1
    /\ pc' = "kr_loop"
    /\ UNCHANGED notMST
    /\ UNCHANGED <<n, kr_result>>

(* Step 2 for one edge: add it when its ends are in different sets *)
KruskalEdge ==
    /\ pc = "kr_loop"
    /\ kr_i <= Len(edges)
    /\ LET e == edges[kr_i]
           fu == DS_find(parent, e[1])
           fv == DS_find(fu[2], e[2])
       IN  IF fu[1] # fv[1]
           THEN LET un == DS_union(fv[2], rank, e[1], e[2])
                IN  /\ parent' = un[1]
                    /\ rank' = un[2]
                    /\ mst' = Append(mst, e)
           ELSE /\ parent' = fv[2]
                /\ UNCHANGED <<rank, mst>>
    /\ kr_i' = kr_i + 1
    /\ UNCHANGED notMST
    /\ UNCHANGED <<pc, n, edges, kr_result>>

KruskalReturn ==
    /\ pc = "kr_loop"
    /\ kr_i > Len(edges)
    /\ kr_result' = mst
    /\ pc' = "kr_done"
    /\ UNCHANGED notMST
    /\ UNCHANGED <<n, edges, parent, rank, mst, kr_i>>

(* ds.find(x), called on a DisjointSet in any state; an index out of range
   raises IndexError at the first self.parent[node] *)
DSFindCall(x) ==
    /\ ds_calls < MaxCalls
    /\ ds_call' = [op |-> "find", x |-> x, y |-> x]
    /\ IF InRange(n, x)
       THEN /\ ds_ret' = DS_find(parent, x)[1]
            /\ parent' = DS_find(parent, x)[2]
            /\ ds_err' = FALSE
       ELSE /\ ds_ret' = None
            /\ ds_err' = TRUE
            /\ UNCHANGED parent
    /\ ds_calls' = ds_calls + 1
    /\ ds_before' = [parent |-> parent, rank |-> rank]
    /\ UNCHANGED notDS
    /\ UNCHANGED rank

(* ds.union(x, y): root_u = self.find(u) runs before root_v = self.find(v),
   so with only v out of range the parents of u's chain are already
   compressed when IndexError is raised *)
DSUnionCall(x, y) ==
    /\ ds_calls < MaxCalls
    /\ ds_call' = [op |-> "union", x |-> x, y |-> y]
    /\ ds_ret' = None
    /\ IF ~InRange(n, x)
       THEN /\ ds_err' = TRUE
            /\ UNCHANGED <<parent, rank>>
       ELSE IF ~InRange(n, y)
       THEN /\ ds_err' = TRUE
            /\ parent' = DS_find(parent, x)[2]
            /\ UNCHANGED rank
       ELSE /\ ds_err' = FALSE
            /\ parent' = DS_union(parent, rank, x, y)[1]
            /\ rank' = DS_union(parent, rank, x, y)[2]
    /\ ds_calls' = ds_calls + 1
    /\ ds_before' = [parent |-> parent, rank |-> rank]
    /\ UNCHANGED notDS

(* the calls with indices of range(n) *)
DSFind == \E x \in Vertices(n) : DSFindCall(x)

DSUnion == \E x, y \in Vertices(n) : DSUnionCall(x, y)

(* the calls with any index from one below to one above range(n) *)
DSFindAnyIndex == \E x \in (0 - 1)..n : DSFindCall(x)

DSUnionAnyIndex == \E x, y \in (0 - 1)..n : DSUnionCall(x, y)

(* kruskal(n, edges) as a function of its arguments: the loop of Step 2 from
   edge i on *)
RECURSIVE KruskalLoop(_, _, _, _, _)
KruskalLoop(es, i, par, rnk, m) ==
    IF i > Len(es) THEN m
    ELSE LET e == es[i]
             fu == DS_find(par, e[1])
             fv == DS_find(fu[2], e[2])
         IN  IF fu[1] # fv[1]
             THEN LET un == DS_union(fv[2], rnk, e[1], e[2])
                  IN  KruskalLoop(es, i + 1, un[1], un[2], Append(m, e))
             ELSE KruskalLoop(es, i + 1, fv[2], rnk, m)

kruskal(nn, es) ==
    KruskalLoop(SortByWeight(es), 1, [x \in Vertices(nn) |-> x],
                [x \in Vertices(nn) |-> 0], <<>>)

----------------------------------------------------------------------------
(* prim(n, graph), prims_MST.py *)

(* to_adj: graph[u] = [(weight, v), ...], every edge entered at both ends, in
   the order of the edge list; one list per vertex of the caller's n (and a
   faulty variant that enters an edge at its first end only) *)
RECURSIVE to_adj_OneWay(_, _)
to_adj_OneWay(nn, es) ==
    IF es = <<>> THEN [u \in Vertices(nn) |-> <<>>]
    ELSE LET g == to_adj_OneWay(nn, SubSeq(es, 1, Len(es) - 1))
             e == es[Len(es)]
         IN  [g EXCEPT ![e[1]] = Append(@, <<e[3], e[2]>>)]

RECURSIVE to_adj(_, _)
to_adj(nn, es) ==
    IF es = <<>> THEN [u \in Vertices(nn) |-> <<>>]
    ELSE LET g == to_adj(nn, SubSeq(es, 1, Len(es) - 1))
             e == es[Len(es)]
             g1 == [g EXCEPT ![e[1]] = Append(@, <<e[3], e[2]>>)]
         IN  [g1 EXCEPT ![e[2]] = Append(@, <<e[3], e[1]>>)]

(* the order of the heap entries (weight, node, parent): tuple comparison
   (and a faulty variant that leaves the weight out) *)
TripleLess_NoWeight(a, b) == TupleLess(<<a[2], a[3]>>, <<b[2], b[3]>>)

TripleLess(a, b) ==
    a[1] < b[1] \/ (a[1] = b[1] /\ TupleLess(<<a[2], a[3]>>, <<b[2], b[3]>>))

(* heapq.heappush: the heap is kept as the sequence of its entries in pop
   order (and a faulty variant: a plain queue) *)
PrimHeapPush_Append(heap, x) == Append(heap, x)

PrimHeapPush(heap, x) ==
    LET k == Cardinality({i \in 1..Len(heap) :
                             TripleLess(heap[i], x) \/ heap[i] = x})
    IN  SubSeq(heap, 1, k) \o <<x>> \o SubSeq(heap, k + 1, Len(heap))

(* for edge_weight, neighbor in entries: heappush(min_heap, (edge_weight,
   neighbor, from)) *)
RECURSIVE PushEdges(_, _, _)
PushEdges(heap, entries, from) ==
    IF entries = <<>> THEN heap
    ELSE PushEdges(PrimHeapPush(heap, <<entries[1][1], entries[1][2], from>>),
                   Tail(entries), from)

(* if visited[node]: continue (and a faulty variant that never skips) *)
PrimSkip_Never(vis, nd) == FALSE

PrimSkip(vis, nd) == vis[nd]

(* if len(mst) == n - 1: break *)
PrimFull(m, nn) == Len(m) = nn - 1

(* the state before the while loop: start_node = 0 is visited and all its
   adjacency entries are pushed *)
PrimInit(nn, g) ==
    [visited |-> [v \in Vertices(nn) |-> v = 0],
     heap |-> PushEdges(<<>>, g[0], 0),
     mst |-> <<>>,
     brk |-> FALSE]

(* one iteration of while min_heap; brk: the iteration ended with break *)
PrimStep(nn, g, st) ==
    LET top == Head(st.heap)
        rest == Tail(st.heap)
    IN  IF PrimSkip(st.visited, top[2])
        THEN [st EXCEPT !.heap = rest]
        ELSE LET m == Append(st.mst, <<top[3], top[2], top[1]>>)
                 vis == [st.visited EXCEPT ![top[2]] = TRUE]
             IN  IF PrimFull(m, nn)
                 THEN [visited |-> vis, heap |-> rest, mst |-> m, brk |-> TRUE]
                 ELSE [visited |-> vis,
                       heap |-> PushEdges(rest,
                                    SelectSeq(g[top[2]], LAMBDA x : ~vis[x[2]]),
                                    top[2]),
                       mst |-> m,
                       brk |-> FALSE]

(* prim(n, graph) as a function of its arguments *)
RECURSIVE PrimRun(_, _, _)
PrimRun(nn, g, st) ==
    IF st.heap = <<>> \/ st.brk THEN st.mst
    ELSE PrimRun(nn, g, PrimStep(nn, g, st))

prim(nn, g) == PrimRun(nn, g, PrimInit(nn, g))

PrimStart ==
    /\ pc = "kr_done"
    /\ LET st == PrimInit(n, graph)
       IN  /\ visited' = st.visited
           /\ pr_heap' = st.heap
           /\ pr_mst' = st.mst
    /\ pc' = "pr_loop"
    /\ UNCHANGED notPrim
    /\ UNCHANGED <<n, pr_result>>

PrimPop ==
    /\ pc = "pr_loop"
    /\ pr_heap # <<>>
    /\ LET st == PrimStep(n, graph, [visited |-> visited, heap |-> pr_heap,
                                     mst |-> pr_mst, brk |-> FALSE])
       IN  /\ visited' = st.visited
           /\ pr_heap' = st.heap
           /\ pr_mst' = st.mst
           /\ pc' = IF st.brk THEN "pr_break" ELSE "pr_loop"
    /\ UNCHANGED notPrim
    /\ UNCHANGED <<n, pr_result>>

PrimReturn ==
    /\ \/ pc = "pr_break"
       \/ pc = "pr_loop" /\ pr_heap = <<>>
    /\ pr_result' = pr_mst
    /\ pc' = "pr_done"
    /\ UNCHANGED notPrim
    /\ UNCHANGED <<n, visited, pr_heap, pr_mst>>

----------------------------------------------------------------------------
(* kahn_topological_sort(n, edges), kahn_Topological_sort.py *)

(* Step 1: adj[u] = [v, ...] in the order of the edge list *)
KahnAdj(nn, es) ==
    [u \in Vertices(nn) |->
        LET sel == SelectSeq(es, LAMBDA e : e[1] = u)
        IN  [i \in 1..Len(sel) |-> sel[i][2]]]

(* Step 1: in_degree[v] += 1 for every edge (u, v) *)
KahnInDegree(nn, es) ==
    [v \in Vertices(nn) |-> Cardinality({k \in 1..Len(es) : es[k][2] = v})]

(* in_degree[...] == 0 (and a faulty variant: <= 1) *)
IsReady_AtMostOne(d) == d <= 1

IsReady(d) == d = 0

(* Step 2: for i in range(n): if in_degree[i] == 0: queue.append(i) *)
RECURSIVE KahnSources(_, _, _)
KahnSources(deg, i, nn) ==
    IF i >= nn THEN <<>>
    ELSE (IF IsReady(deg[i]) THEN <<i>> ELSE <<>>) \o KahnSources(deg, i + 1, nn)

(* for neighbor in adj[node]: in_degree[neighbor] -= 1, and the neighbour is
   queued when it reaches 0: <<in_degree afterwards, queue afterwards>> *)
RECURSIVE KahnRelease(_, _, _)
KahnRelease(nbs, deg, q) ==
    IF nbs = <<>> THEN <<deg, q>>
    ELSE LET v == Head(nbs)
             d == [deg EXCEPT ![v] = @ - 1]
         IN  KahnRelease(Tail(nbs), d, IF IsReady(d[v]) THEN Append(q, v) ELSE q)

(* Step 4: if len(topo_order) != n (and a faulty variant without the test) *)
KahnIncomplete_Never(order, nn) == FALSE

KahnIncomplete(order, nn) == Len(order) # nn

KahnStart ==
    /\ pc = "ka_start"
    /\ ka_adj' = KahnAdj(n, edges)
    /\ in_degree' = KahnInDegree(n, edges)
    /\ queue' = KahnSources(KahnInDegree(n, edges), 0, n)
    /\ topo_order' = <<>>
    /\ pc' = "ka_loop"
    /\ UNCHANGED notKahn
    /\ UNCHANGED ka_result

(* one iteration of while queue *)
KahnPop ==
    /\ pc = "ka_loop"
    /\ queue # <<>>
    /\ LET nd == Head(queue)
           rel == KahnRelease(ka_adj[nd], in_degree, Tail(queue))
       IN  /\ topo_order' = Append(topo_order, nd)
           /\ in_degree' = rel[1]
           /\ queue' = rel[2]
    /\ UNCHANGED notKahn
    /\ UNCHANGED <<pc, ka_adj, ka_result>>

KahnReturn ==
    /\ pc = "ka_loop"
    /\ queue = <<>>
    /\ ka_result' = IF KahnIncomplete(topo_order, n) THEN <<>> ELSE topo_order
    /\ pc' = "ka_done"
    /\ UNCHANGED notKahn
    /\ UNCHANGED <<ka_adj, in_degree, queue, topo_order>>

----------------------------------------------------------------------------
(* is_cyclic(V, edges), cycle-detection/directed-graph/colouring.py *)

WHITE == 0
GRAY == 1
BLACK == 2

(* construct_adj: adj[u] = [v, ...] in the order of the edge list *)
construct_adj(V, es) ==
    [u \in Vertices(V) |->
        LET sel == SelectSeq(es, LAMBDA e : e[1] = u)
        IN  [i \in 1..Len(sel) |-> sel[i][2]]]

(* the colour dfs_util gives a vertex when all its neighbours are explored
   (and a faulty variant that leaves it GRAY) *)
FinishColor_Gray == GRAY

FinishColor == BLACK

(* the call on top of the call stack *)
Top(fr) == fr[Len(fr)]

(* the caller moves on to its next neighbour *)
Advance(fr) == [fr EXCEPT ![Len(fr)] = <<@[1], @[2] + 1>>]

Pop(fr) == SubSeq(fr, 1, Len(fr) - 1)

CyclicStart ==
    /\ pc = "cy_start"
    /\ color' = [v \in Vertices(n) |-> WHITE]
    /\ graph_adj' = construct_adj(n, edges)
    /\ loop_i' = 0
    /\ frames' = <<>>
    /\ pc' = "cy_loop"
    /\ UNCHANGED notCyclic
    /\ UNCHANGED cy_result

(* for i in range(V): if color[i] == WHITE: the call dfs_util(i, ...), which
   colours i GRAY on entry *)
CyclicOuter ==
    /\ pc = "cy_loop"
    /\ loop_i < n
    /\ IF color[loop_i] = WHITE
       THEN /\ color' = [color EXCEPT ![loop_i] = GRAY]
            /\ frames' = <<<<loop_i, 1>>>>
            /\ pc' = "cy_dfs"
            /\ UNCHANGED loop_i
       ELSE /\ loop_i' = loop_i + 1
            /\ UNCHANGED <<color, frames, pc>>
    /\ UNCHANGED notCyclic
    /\ UNCHANGED <<graph_adj, cy_result>>

(* dfs_util, one neighbour v of u: BLACK is skipped, GRAY makes this call and
   every call below it return True, WHITE is entered *)
DfsNeighbour ==
    /\ pc = "cy_dfs"
    /\ Top(frames)[2] <= Len(graph_adj[Top(frames)[1]])
    /\ LET v == graph_adj[Top(frames)[1]][Top(frames)[2]]
       IN  IF color[v] = BLACK
           THEN /\ frames' = Advance(frames)
                /\ UNCHANGED <<color, cy_result, pc>>
           ELSE IF color[v] = GRAY
           THEN /\ cy_result' = "True"
                /\ frames' = <<>>
                /\ pc' = "cy_done"
                /\ UNCHANGED color
           ELSE /\ color' = [color EXCEPT ![v] = GRAY]
                /\ frames' = Append(Advance(frames), <<v, 1>>)
                /\ UNCHANGED <<cy_result, pc>>
    /\ UNCHANGED notCyclic
    /\ UNCHANGED <<graph_adj, loop_i>>

(* dfs_util, after the loop: the vertex is finished and the call returns
   False, to its caller or to the loop of is_cyclic *)
DfsFinish ==
    /\ pc = "cy_dfs"
    /\ Top(frames)[2] > Len(graph_adj[Top(frames)[1]])
    /\ color' = [color EXCEPT ![Top(frames)[1]] = FinishColor]
    /\ frames' = Pop(frames)
    /\ IF Len(frames) = 1
       THEN /\ loop_i' = loop_i + 1
            /\ pc' = "cy_loop"
       ELSE UNCHANGED <<loop_i, pc>>
    /\ UNCHANGED notCyclic
    /\ UNCHANGED <<graph_adj, cy_result>>

CyclicReturnFalse ==
    /\ pc = "cy_loop"
    /\ loop_i >= n
    /\ cy_result' = "False"
    /\ pc' = "cy_done"
    /\ UNCHANGED notCyclic
    /\ UNCHANGED <<color, graph_adj, frames, loop_i>>

----------------------------------------------------------------------------
(* class Kosaraju, kosaraju_strongly_connected_components.py *)

(* Kosaraju(V) and add_edge(u, v) for every edge of the list, in its order *)
RECURSIVE add_edges(_, _)
add_edges(V, es) ==
    IF es = <<>> THEN [u \in Vertices(V) |-> <<>>]
    ELSE LET g == add_edges(V, SubSeq(es, 1, Len(es) - 1))
         IN  [g EXCEPT ![es[Len(es)][1]] = Append(@, es[Len(es)][2])]

(* the edges (node, neighbor) of an adjacency list from node `from` on, in
   the order of for node in range(V): for neighbor in graph[node] *)
RECURSIVE EdgesOf(_, _, _)
EdgesOf(V, g, from) ==
    IF from >= V THEN <<>>
    ELSE [k \in 1..Len(g[from]) |-> <<from, g[from][k]>>]
             \o EdgesOf(V, g, from + 1)

(* _get_transpose: add_edge(neighbor, node) for every edge (and a faulty
   variant that copies the edges unreversed) *)
get_transpose_Unreversed(V, g) == add_edges(V, EdgesOf(V, g, 0))

get_transpose(V, g) ==
    LET es == EdgesOf(V, g, 0)
    IN  add_edges(V, [k \in 1..Len(es) |-> <<es[k][2], es[k][1]>>])

KosarajuStart ==
    /\ pc = "ko_start"
    /\ ko_graph' = add_edges(n, edges)
    /\ stack' = <<>>
    /\ ko_visited' = [v \in Vertices(n) |-> FALSE]
    /\ loop_i' = 0
    /\ frames' = <<>>
    /\ pc' = "ko_fill"
    /\ UNCHANGED notKosaraju
    /\ UNCHANGED <<reversed_graph, new_component, scc_list, ko_result>>

(* STEP 1, for i in range(self.V): if not visited[i]: the call
   _dfs_fill_order(i, ...), which marks i visited on entry *)
FillOuter ==
    /\ pc = "ko_fill"
    /\ loop_i < n
    /\ IF ~ko_visited[loop_i]
       THEN /\ ko_visited' = [ko_visited EXCEPT ![loop_i] = TRUE]
            /\ frames' = <<<<loop_i, 1>>>>
            /\ pc' = "ko_fill_dfs"
            /\ UNCHANGED loop_i
       ELSE /\ loop_i' = loop_i + 1
            /\ UNCHANGED <<ko_visited, frames, pc>>
    /\ UNCHANGED notKosaraju
    /\ UNCHANGED <<ko_graph, stack, reversed_graph, new_component, scc_list,
                   ko_result>>

(* _dfs_fill_order, one neighbour: entered when it is not visited *)
FillNeighbour ==
    /\ pc = "ko_fill_dfs"
    /\ Top(frames)[2] <= Len(ko_graph[Top(frames)[1]])
    /\ LET neighbor == ko_graph[Top(frames)[1]][Top(frames)[2]]
       IN  IF ~ko_visited[neighbor]
           THEN /\ ko_visited' = [ko_visited EXCEPT ![neighbor] = TRUE]
                /\ frames' = Append(Advance(frames), <<neighbor, 1>>)
           ELSE /\ frames' = Advance(frames)
                /\ UNCHANGED ko_visited
    /\ UNCHANGED notKosaraju
    /\ UNCHANGED <<pc, loop_i, ko_graph, stack, reversed_graph, new_component,
                   scc_list, ko_result>>

(* _dfs_fill_order, after the loop: stack.append(node) and return *)
FillFinish ==
    /\ pc = "ko_fill_dfs"
    /\ Top(frames)[2] > Len(ko_graph[Top(frames)[1]])
    /\ stack' = Append(stack, Top(frames)[1])
    /\ frames' = Pop(frames)
    /\ IF Len(frames) = 1
       THEN /\ loop_i' = loop_i + 1
            /\ pc' = "ko_fill"
       ELSE UNCHANGED <<loop_i, pc>>
    /\ UNCHANGED notKosaraju
    /\ UNCHANGED <<ko_graph, ko_visited, reversed_graph, new_component,
                   scc_list, ko_result>>

(* STEP 2 and the start of STEP 3 *)
Transpose ==
    /\ pc = "ko_fill"
    /\ loop_i >= n
    /\ reversed_graph' = get_transpose(n, ko_graph)
    /\ ko_visited' = [v \in Vertices(n) |-> FALSE]
    /\ scc_list' = <<>>
    /\ pc' = "ko_collect"
    /\ UNCHANGED notKosaraju
    /\ UNCHANGED <<ko_graph, stack, new_component, ko_result, frames, loop_i>>

(* STEP 3, node = stack.pop(): if not visited[node], a new component and the
   call _dfs_collect_scc(node, ...), which marks node and appends it *)
CollectPop ==
    /\ pc = "ko_collect"
    /\ stack # <<>>
    /\ stack' = SubSeq(stack, 1, Len(stack) - 1)
    /\ LET nd == stack[Len(stack)]
       IN  IF ~ko_visited[nd]
           THEN /\ ko_visited' = [ko_visited EXCEPT ![nd] = TRUE]
                /\ new_component' = <<nd>>
                /\ frames' = <<<<nd, 1>>>>
                /\ pc' = "ko_collect_dfs"
           ELSE UNCHANGED <<ko_visited, new_component, frames, pc>>
    /\ UNCHANGED notKosaraju
    /\ UNCHANGED <<ko_graph, reversed_graph, scc_list, ko_result, loop_i>>

(* _dfs_collect_scc on the reversed graph, one neighbour *)
CollectNeighbour ==
    /\ pc = "ko_collect_dfs"
    /\ Top(frames)[2] <= Len(reversed_graph[Top(frames)[1]])
    /\ LET neighbor == reversed_graph[Top(frames)[1]][Top(frames)[2]]
       IN  IF ~ko_visited[neighbor]
           THEN /\ ko_visited' = [ko_visited EXCEPT ![neighbor] = TRUE]
                /\ new_component' = Append(new_component, neighbor)
                /\ frames' = Append(Advance(frames), <<neighbor, 1>>)
           ELSE /\ frames' = Advance(frames)
                /\ UNCHANGED <<ko_visited, new_component>>
    /\ UNCHANGED notKosaraju
    /\ UNCHANGED <<pc, loop_i, ko_graph, stack, reversed_graph, scc_list,
                   ko_result>>

(* _dfs_collect_scc returns; the outermost return is followed by
   scc_list.append(new_component) *)
CollectFinish ==
    /\ pc = "ko_collect_dfs"
    /\ Top(frames)[2] > Len(reversed_graph[Top(frames)[1]])
    /\ frames' = Pop(frames)
    /\ IF Len(frames) = 1
       THEN /\ scc_list' = Append(scc_list, new_component)
            /\ pc' = "ko_collect"
       ELSE UNCHANGED <<scc_list, pc>>
    /\ UNCHANGED notKosaraju
    /\ UNCHANGED <<loop_i, ko_graph, ko_visited, stack, reversed_graph,
                   new_component, ko_result>>

KosarajuReturn ==
    /\ pc = "ko_collect"
    /\ stack = <<>>
    /\ ko_result' = scc_list
    /\ pc' = "ko_done"
    /\ UNCHANGED notKosaraju
    /\ UNCHANGED <<loop_i, frames, ko_graph, ko_visited, stack, reversed_graph,
                   new_component, scc_list>>

----------------------------------------------------------------------------
(* Initial states: every vertex count, edge list and source within bounds *)

(* the variables of the functions a specification does not run *)
IdleAPSP ==
    /\ matrix = <<>>
    /\ fw_k = 0
    /\ fw_i = 0
    /\ fw_j = 0
    /\ fw_result = Pending
    /\ h = Pending
    /\ new_adj = <<>>
    /\ all_pairs = <<>>
    /\ jo_u = 0
    /\ jo_result = Pending

IdleMST ==
    /\ parent = <<>>
    /\ rank = <<>>
    /\ mst = <<>>
    /\ kr_i = 1
    /\ kr_result = <<>>

IdlePrim ==
    /\ visited = <<>>
    /\ pr_heap = <<>>
    /\ pr_mst = <<>>
    /\ pr_result = <<>>

IdleDS ==
    /\ ds_call = [op |-> "none", x |-> 0, y |-> 0]
    /\ ds_ret = None
    /\ ds_err = FALSE
    /\ ds_calls = 0
    /\ ds_before = [parent |-> <<>>, rank |-> <<>>]

IdleDG ==
    /\ ka_adj = <<>>
    /\ in_degree = <<>>
    /\ queue = <<>>
    /\ topo_order = <<>>
    /\ ka_result = <<>>
    /\ color = <<>>
    /\ graph_adj = <<>>
    /\ cy_result = "pending"
    /\ frames = <<>>
    /\ loop_i = 0
    /\ ko_graph = <<>>
    /\ ko_visited = <<>>
    /\ stack = <<>>
    /\ reversed_graph = <<>>
    /\ new_component = <<>>
    /\ scc_list = <<>>
    /\ ko_result = <<>>

IdleSSSP ==
    /\ source = 0
    /\ updated = FALSE
    /\ pass = 0
    /\ idx = 1
    /\ min_heap = <<>>
    /\ node = 0
    /\ current_dist = 0
    /\ bf_result = Pending
    /\ dj_result = Pending

Init ==
    /\ \E nn \in 1..MaxN :
          /\ n = nn
          /\ edges \in EdgeLists(nn)
          /\ source \in Vertices(nn)
    /\ graph = AdjOf(n, edges)
    /\ pc = "bf_start"
    /\ distance = <<>>
    /\ parents = <<>>
    /\ updated = FALSE
    /\ pass = 0
    /\ idx = 1
    /\ min_heap = <<>>
    /\ node = 0
    /\ current_dist = 0
    /\ bf_result = Pending
    /\ dj_result = Pending
    /\ IdleAPSP
    /\ IdleMST
    /\ IdlePrim
    /\ IdleDG
    /\ IdleDS

(* bellman_ford alone, on up to MaxPassN vertices and MaxPassEdges edges: with
   four vertices a pass without updates can come while passes remain after
   a pass with updates *)
InitBF ==
    /\ \E nn \in 1..MaxPassN :
          /\ n = nn
          /\ edges \in UNION {[1..k -> EdgeSet(nn)] : k \in 1..MaxPassEdges}
          /\ source \in Vertices(nn)
    /\ graph = AdjOf(n, edges)
    /\ pc = "bf_start"
    /\ distance = <<>>
    /\ parents = <<>>
    /\ updated = FALSE
    /\ pass = 0
    /\ idx = 1
    /\ min_heap = <<>>
    /\ node = 0
    /\ current_dist = 0
    /\ bf_result = Pending
    /\ dj_result = Pending
    /\ IdleAPSP
    /\ IdleMST
    /\ IdlePrim
    /\ IdleDG
    /\ IdleDS

NextBF ==
    \/ BFStart
    \/ BFRelaxEdge
    \/ BFEndPass
    \/ BFDetect

SpecBF == InitBF /\ [][NextBF]_vars

(* floyd_warshall, then johnson, on the graph of every edge list within
   bounds: johnson is given its adjacency list, floyd_warshall its matrix *)
InitAPSP ==
    /\ \E nn \in 1..MaxN :
          /\ n = nn
          /\ edges \in EdgeLists(nn)
    /\ graph = AdjOf(n, edges)
    /\ matrix = MatrixOf(n, edges)
    /\ pc = "fw_start"
    /\ distance = <<>>
    /\ parents = <<>>
    /\ fw_k = 0
    /\ fw_i = 0
    /\ fw_j = 0
    /\ fw_result = Pending
    /\ h = Pending
    /\ new_adj = <<>>
    /\ all_pairs = <<>>
    /\ jo_u = 0
    /\ jo_result = Pending
    /\ IdleSSSP
    /\ IdleMST
    /\ IdlePrim
    /\ IdleDG
    /\ IdleDS

NextAPSP ==
    \/ FWStart
    \/ FWCell
    \/ FWCheck
    \/ JohnsonStart
    \/ JohnsonReweight
    \/ JohnsonDijkstra
    \/ JohnsonReturn

SpecAPSP == InitAPSP /\ [][NextAPSP]_vars

(* kruskal on every undirected edge list (u, v, weight) within bounds, then
   prim on the adjacency list to_adj makes of the same edge list *)
InitMST ==
    /\ \E nn \in 1..MaxN :
          /\ n = nn
          /\ edges \in EdgeLists(nn)
    /\ pc = "kr_start"
    /\ graph = to_adj(n, edges)
    /\ distance = <<>>
    /\ parents = <<>>
    /\ IdleMST
    /\ IdlePrim
    /\ IdleDG
    /\ IdleDS
    /\ IdleSSSP
    /\ IdleAPSP

NextMST ==
    \/ KruskalStart
    \/ KruskalEdge
    \/ KruskalReturn
    \/ PrimStart
    \/ PrimPop
    \/ PrimReturn

SpecMST == InitMST /\ [][NextMST]_vars

(* the directed graphs of every list of edges (u, v) within bounds *)
InitDG ==
    /\ \E nn \in 1..MaxV :
          /\ n = nn
          /\ edges \in ArcLists(nn)
    /\ graph = <<>>
    /\ distance = <<>>
    /\ parents = <<>>
    /\ IdleDG
    /\ IdleDS
    /\ IdleMST
    /\ IdlePrim
    /\ IdleSSSP
    /\ IdleAPSP

InitKahn == InitDG /\ pc = "ka_start"

NextKahn ==
    \/ KahnStart
    \/ KahnPop
    \/ KahnReturn

SpecKahn == InitKahn /\ [][NextKahn]_vars

InitCyclic == InitDG /\ pc = "cy_start"

NextCyclic ==
    \/ CyclicStart
    \/ CyclicOuter
    \/ DfsNeighbour
    \/ DfsFinish
    \/ CyclicReturnFalse

SpecCyclic == InitCyclic /\ [][NextCyclic]_vars

InitKosaraju == InitDG /\ pc = "ko_start"

NextKosaraju ==
    \/ KosarajuStart
    \/ FillOuter
    \/ FillNeighbour
    \/ FillFinish
    \/ Transpose
    \/ CollectPop
    \/ CollectNeighbour
    \/ CollectFinish
    \/ KosarajuReturn

SpecKosaraju == InitKosaraju /\ [][NextKosaraju]_vars

(* ds = DisjointSet(n), then any calls of find and union *)
InitDS ==
    /\ n \in 1..MaxV
    /\ parent = [x \in Vertices(n) |-> x]
    /\ rank = [x \in Vertices(n) |-> 0]
    /\ pc = "ds"
    /\ edges = <<>>
    /\ graph = <<>>
    /\ distance = <<>>
    /\ parents = <<>>
    /\ mst = <<>>
    /\ kr_i = 1
    /\ kr_result = <<>>
    /\ IdleDS
    /\ IdleDG
    /\ IdlePrim
    /\ IdleSSSP
    /\ IdleAPSP

NextDS ==
    \/ DSFind
    \/ DSUnion

SpecDS == InitDS /\ [][NextDS]_vars

(* the same, the callers not keeping to the indices of range(n) *)
NextDSIndex ==
    \/ DSFindAnyIndex
    \/ DSUnionAnyIndex

SpecDSIndex == InitDS /\ [][NextDSIndex]_vars

Next ==
    \/ BFStart
    \/ BFRelaxEdge
    \/ BFEndPass
    \/ BFDetect
    \/ DijkstraStart
    \/ DijkstraPop
    \/ DijkstraRelax
    \/ DijkstraEndFor
    \/ DijkstraReturn
    \/ DijkstraUnbounded

Spec == Init /\ [][Next]_vars

(* The functions are sequential code: a step that can be taken is taken. *)
FairSpec == Spec /\ WF_vars(Next)

----------------------------------------------------------------------------
(* Single-source shortest paths *)

(* C1: on a graph without negative weights dijkstra terminates (its loop is
   never cut off as endless and the return is reached) and returns the table
   of the true shortest-path weights from the source: 0 for the source, INF
   for unreachable vertices. *)
C1_DijkstraShortest ==
    /\ [](NonNegative(edges) =>
            /\ pc # "dj_unbounded"
            /\ pc = "done" => dj_result = RetTable(TrueTable(n, edges, source)))
    /\ (NonNegative(edges) => <>(pc = "done"))

(* dijkstra returned on a non-negative graph where some vertex is nearer
   over two edges than over its direct edge from the source *)
C1_Witness ==
    /\ pc = "done"
    /\ NonNegative(edges)
    /\ \E v \in Vertices(n) \ {source} :
          dj_result.table[v] < MinEdgeW(edges, source, v)
          /\ MinEdgeW(edges, source, v) < INF

(* C2: without a negative cycle reachable from the source, bellman_ford
   (which has just returned when pc = "dj_start") returns the table of the true shortest-path weights (INF for unreachable
   vertices), negative weights included. *)
C2_BellmanFordShortest ==
    (pc = "dj_start" /\ ~NegCycleReachable(n, edges, source)) =>
        bf_result = RetTable(TrueTable(n, edges, source))

(* bellman_ford returned a table with a negative entry and an INF entry *)
C2_Witness ==
    /\ pc = "dj_start"
    /\ bf_result.ret = "table"
    /\ \E v \in Vertices(n) : bf_result.table[v] < 0
    /\ \E v \in Vertices(n) : bf_result.table[v] = INF

(* C3: bellman_ford returns None exactly when a negative-weight cycle is
   reachable from the source. *)
C3_NegativeCycleSignal ==
    pc = "dj_start" =>
        (bf_result = RetNone <=> NegCycleReachable(n, edges, source))

(* None is returned for a single vertex: no relaxation pass at all ran *)
C3_Witness ==
    /\ pc = "dj_start"
    /\ bf_result = RetNone
    /\ n = 1

(* C4: on a graph without negative weights dijkstra and bellman_ford return
   the same table, INF entries included. *)
C4_DijkstraEqualsBellmanFord ==
    (pc = "done" /\ NonNegative(edges)) =>
        /\ bf_result.ret = "table"
        /\ dj_result = bf_result

(* both returned, with an unreachable vertex and a vertex at a positive
   distance *)
C4_Witness ==
    /\ pc = "done"
    /\ NonNegative(edges)
    /\ \E v \in Vertices(n) : dj_result.table[v] = INF
    /\ \E v \in Vertices(n) : dj_result.table[v] > 0 /\ dj_result.table[v] < INF

----------------------------------------------------------------------------
(* All-pairs shortest paths *)

(* the entries of a weight matrix as an edge list (an INF entry: no edge) *)
MatrixEdges(nn, m) ==
    [k \in 1..(nn * nn) |->
        <<(k - 1) \div nn, (k - 1) % nn, m[(k - 1) \div nn][(k - 1) % nn]>>]

TrueMatrix(nn, es) == [a \in Vertices(nn) |-> TrueTable(nn, es, a)]

(* C5: for a weight matrix (0 diagonal, INF for missing edges) without
   negative cycle, floyd_warshall returns the matrix of the true
   shortest-path weights over paths of any number of edges. *)
C5_FloydWarshallShortest ==
    (pc = "jo_start" /\ ~NegCycle(n, MatrixEdges(n, matrix))) =>
        fw_result = RetTable(TrueMatrix(n, MatrixEdges(n, matrix)))

(* C6: for a weight matrix (0 diagonal) whose graph has a negative-weight
   cycle, floyd_warshall ends with a negative entry on the diagonal and
   returns None. *)
C6_FloydWarshallNegativeCycle ==
    (pc = "jo_start" /\ NegCycle(n, MatrixEdges(n, matrix))) =>
        /\ \E a \in Vertices(n) : distance[a][a] < 0
        /\ fw_result = RetNone

(* C7: for a graph without negative cycle, johnson (adjacency list) and
   floyd_warshall (weight matrix of the same graph) return the same matrix. *)
C7_JohnsonEqualsFloydWarshall ==
    (pc = "apsp_done" /\ ~NegCycle(n, edges)) =>
        /\ jo_result.ret = "table"
        /\ jo_result = fw_result

(* C8: johnson returns None exactly when the graph has a negative-weight
   cycle anywhere, and then has started no dijkstra run (nothing reweighted,
   no row computed); otherwise it returns the matrix of the true
   shortest-path weights of the original graph, INF for unreachable pairs. *)
C8_JohnsonShortest ==
    pc = "apsp_done" =>
        /\ jo_result = RetNone <=> NegCycle(n, edges)
        /\ jo_result = RetNone => (new_adj = <<>> /\ all_pairs = <<>>)
        /\ jo_result # RetNone => jo_result = RetTable(TrueMatrix(n, edges))

(* johnson returned a matrix with a negative entry and an INF entry *)
C8_Witness ==
    /\ pc = "apsp_done"
    /\ jo_result.ret = "table"
    /\ \E a, b \in Vertices(n) : jo_result.table[a][b] < 0
    /\ \E a, b \in Vertices(n) : jo_result.table[a][b] = INF

(* C9: when johnson's bellman_ford from q reports no negative cycle, every
   potential h[v] is finite and every reweighted edge of new_adj has a
   weight >= 0. *)
C9_ReweightedNonNegative ==
    h.ret = "table" =>
        /\ \A v \in 0..n : h.table[v] # INF
        /\ \A a \in DOMAIN new_adj :
              \A k \in 1..Len(new_adj[a]) : new_adj[a][k][2] >= 0

(* the edges are reweighted, one of them had a negative weight and another
   one got a different weight *)
C9_Witness ==
    /\ pc = "jo_dijkstra"
    /\ \E k \in 1..Len(edges) : edges[k][3] < 0
    /\ \E a \in Vertices(n) :
          \E k \in 1..Len(new_adj[a]) : new_adj[a][k][2] # graph[a][k][2]

----------------------------------------------------------------------------
(* Minimum spanning tree *)

(* the vertices an undirected edge list connects to the vertices of S *)
RECURSIVE Grow(_, _)
Grow(es, S) ==
    LET T == S \cup {es[k][2] : k \in {m \in 1..Len(es) : es[m][1] \in S}}
               \cup {es[k][1] : k \in {m \in 1..Len(es) : es[m][2] \in S}}
    IN  IF T = S THEN S ELSE Grow(es, T)

Connects(es, a, b) == b \in Grow(es, {a})

Components(nn, es) == {Grow(es, {a}) : a \in Vertices(nn)}

(* C10: the edges kruskal returns connect exactly the pairs of vertices the
   input connects and there are n - c of them, c the number of connected
   components of the input (so they contain no cycle): n - 1 for a connected
   graph, fewer for a disconnected one. *)
C10_KruskalSpanningForest ==
    pc = "kr_done" =>
        /\ \A a, b \in Vertices(n) :
              Connects(kr_result, a, b) <=> Connects(edges, a, b)
        /\ Len(kr_result) = n - Cardinality(Components(n, edges))
        /\ \A k \in 1..Len(kr_result) :
              \E m \in 1..Len(edges) : edges[m] = kr_result[k]

(* kruskal returned after it discarded an edge that closes a cycle between
   different vertices *)
C10_Witness ==
    /\ pc = "kr_done"
    /\ n = MaxN
    /\ Len(kr_result) = n - 1
    /\ \E k \in 1..Len(edges) :
          /\ edges[k][1] # edges[k][2]
          /\ \A m \in 1..Len(kr_result) : kr_result[m] # edges[k]

(* total weight of a list of edges <<u, v, weight>> *)
RECURSIVE TotalWeight(_)
TotalWeight(m) == IF m = <<>> THEN 0 ELSE m[1][3] + TotalWeight(Tail(m))

(* the edges of es at the positions S, in the order of es *)
RECURSIVE SubEdges(_, _)
SubEdges(es, S) ==
    IF es = <<>> THEN <<>>
    ELSE LET r == SubEdges(SubSeq(es, 1, Len(es) - 1), S)
         IN  IF Len(es) \in S THEN Append(r, es[Len(es)]) ELSE r

SameConnection(nn, es1, es2) ==
    \A a, b \in Vertices(nn) : Connects(es1, a, b) <=> Connects(es2, a, b)

(* no edge closes a cycle: every edge joins two components *)
CycleFree(nn, es) == Len(es) = nn - Cardinality(Components(nn, es))

(* the cycle-free edge subsets of es that connect the pairs es connects *)
SpanningForests(nn, es) ==
    {S \in SUBSET (1..Len(es)) :
        LET sub == SubEdges(es, S)
        IN  CycleFree(nn, sub) /\ SameConnection(nn, sub, es)}

MinForestWeight(nn, es) ==
    Min({TotalWeight(SubEdges(es, S)) : S \in SpanningForests(nn, es)})

(* C11: the total weight of the edges kruskal returns is the least total
   weight of a cycle-free edge subset of the input that connects the same
   pairs of vertices: no such subset is lighter, with equal and negative
   weights as well. *)
C11_KruskalMinimal ==
    pc = "kr_done" =>
        /\ \A S \in SpanningForests(n, edges) :
              TotalWeight(kr_result) <= TotalWeight(SubEdges(edges, S))
        /\ TotalWeight(kr_result) = MinForestWeight(n, edges)

(* kruskal returned a tree with a negative edge and left out an edge, not a
   loop, that is heavier than every edge it took *)
C11_Witness ==
    /\ pc = "kr_done"
    /\ Len(kr_result) = 2
    /\ \E k \in 1..Len(kr_result) : kr_result[k][3] < 0
    /\ \E k \in 1..Len(edges) :
          /\ edges[k][1] # edges[k][2]
          /\ \A m \in 1..Len(kr_result) : kr_result[m][3] < edges[k][3]

(* the orders of a list *)
Perms(sq) ==
    {[i \in 1..Len(sq) |-> sq[f[i]]] : f \in Permutations(1..Len(sq))}

(* the adjacency lists of the vertices below k, each in every order *)
RECURSIVE AdjOrders(_, _)
AdjOrders(g, k) ==
    IF k = 0 THEN {<<>>}
    ELSE {[v \in 0..(k - 1) |-> IF v = k - 1 THEN q ELSE f[v]] :
             f \in AdjOrders(g, k - 1), q \in Perms(g[k - 1])}

(* C12: whatever the order of the edge list, kruskal returns edges of the
   same total weight, and whatever the order of the entries of each adjacency
   list, prim returns edges of the same total weight; equal weights
   included. *)
C12_OrderIndependentWeight ==
    pc = "pr_done" =>
        /\ \A q \in Perms(edges) :
              TotalWeight(kruskal(n, q)) = TotalWeight(kr_result)
        /\ \A g \in AdjOrders(graph, n) :
              TotalWeight(prim(n, g)) = TotalWeight(pr_result)

(* both returned a tree of MaxN vertices; for another order of the edge list
   kruskal chooses other edges, and the adjacency list has another order *)
C12_Witness ==
    /\ pc = "pr_done"
    /\ Len(pr_result) = MaxN - 1
    /\ \E q \in Perms(edges) : kruskal(n, q) # kr_result
    /\ \E g \in AdjOrders(graph, n) : g # graph

Connected(nn, es) == Cardinality(Components(nn, es)) = 1

(* an entry (parent, node, weight) of prim's result is an edge of the input,
   in one of its two directions *)
IsInputEdge(es, t) ==
    \E k \in 1..Len(es) :
        \/ es[k] = t
        \/ es[k] = <<t[2], t[1], t[3]>>

(* C13: for a connected graph prim returns n - 1 edges (parent, node, weight)
   of the graph that connect all vertices (a spanning tree), and their total
   weight is that of the edges kruskal returns. *)
C13_PrimSpanningTree ==
    (pc = "pr_done" /\ Connected(n, edges)) =>
        /\ Len(pr_result) = n - 1
        /\ \A k \in 1..Len(pr_result) : IsInputEdge(edges, pr_result[k])
        /\ Connected(n, pr_result)
        /\ TotalWeight(pr_result) = TotalWeight(kr_result)

(* prim returned a tree of a connected graph of MaxN vertices with an edge
   that kruskal did not take *)
C13_Witness ==
    /\ pc = "pr_done"
    /\ Connected(n, edges)
    /\ n = MaxN
    /\ \E k \in 1..Len(pr_result) : ~IsInputEdge(kr_result, pr_result[k])

(* the edges of es with both ends in S *)
EdgesWithin(es, S) == SelectSeq(es, LAMBDA e : e[1] \in S /\ e[2] \in S)

(* C14: for a disconnected graph prim returns a minimum spanning tree of the
   component of the start vertex 0 only: every returned edge is an edge of
   the graph with both ends in that component, the edges connect the whole
   component, are one fewer than its vertices and have the least total
   weight. *)
C14_PrimStartComponent ==
    (pc = "pr_done" /\ ~Connected(n, edges)) =>
        LET comp == Grow(edges, {0})
        IN  /\ \A k \in 1..Len(pr_result) :
                  /\ IsInputEdge(edges, pr_result[k])
                  /\ pr_result[k][1] \in comp
                  /\ pr_result[k][2] \in comp
            /\ Grow(pr_result, {0}) = comp
            /\ Len(pr_result) = Cardinality(comp) - 1
            /\ TotalWeight(pr_result) =
                   MinForestWeight(n, EdgesWithin(edges, comp))

(* prim returned an edge of the component of vertex 0, chosen among two of
   different weights, and another component has an edge as well *)
C14_Witness ==
    /\ pc = "pr_done"
    /\ ~Connected(n, edges)
    /\ Len(pr_result) = 1
    /\ \E k \in 1..Len(edges) :
          /\ edges[k][1] # edges[k][2]
          /\ edges[k][3] > pr_result[1][3]
    /\ \E k \in 1..Len(edges) : edges[k][1] \notin Grow(edges, {0})

(* C15, as the specification states it: on a disconnected graph the edges of
   kruskal and the edges of prim each connect every pair of vertices the
   input connects. *)
C15_BothSpanningForest ==
    (pc = "pr_done" /\ ~Connected(n, edges)) =>
        /\ SameConnection(n, kr_result, edges)
        /\ SameConnection(n, pr_result, edges)

(* C15, amended: on a disconnected graph the edges of kruskal connect every
   pair of vertices the input connects; the edges of prim connect exactly the
   pairs within the component of the start vertex 0 and no other two
   vertices. *)
C15_KruskalForestPrimTree ==
    (pc = "pr_done" /\ ~Connected(n, edges)) =>
        /\ SameConnection(n, kr_result, edges)
        /\ \A a, b \in Vertices(n) :
              Connects(pr_result, a, b) <=>
                  (a = b \/ {a, b} \subseteq Grow(edges, {0}))

(* both returned for a graph where vertex 0 is on its own and two other
   vertices are joined: kruskal has their edge, prim has nothing *)
C15_Witness ==
    /\ pc = "pr_done"
    /\ ~Connected(n, edges)
    /\ pr_result = <<>>
    /\ Len(kr_result) = 1

----------------------------------------------------------------------------
(* Directed graphs *)

(* the vertices reached from the vertices of S along directed edges *)
RECURSIVE ReachSet(_, _)
ReachSet(es, S) ==
    LET T == S \cup {es[k][2] : k \in {m \in 1..Len(es) : es[m][1] \in S}}
    IN  IF T = S THEN S ELSE ReachSet(es, T)

Reaches(es, a, b) == b \in ReachSet(es, {a})

(* a directed cycle: an edge whose end leads back to its start *)
HasCycle(es) == \E k \in 1..Len(es) : Reaches(es, es[k][2], es[k][1])

(* C16: the lists find_sccs returns are exactly the strongly connected
   components: every vertex is in exactly one list, once, and two vertices
   are in the same list exactly when each is reachable from the other. *)
C16_KosarajuSCC ==
    pc = "ko_done" =>
        /\ \A v \in Vertices(n) :
              Cardinality({<<c, k>> \in (DOMAIN ko_result) \X (1..n) :
                              k <= Len(ko_result[c]) /\ ko_result[c][k] = v}) = 1
        /\ \A c \in DOMAIN ko_result :
              \A k \in 1..Len(ko_result[c]) : ko_result[c][k] \in Vertices(n)
        /\ \A a, b \in Vertices(n) :
              (\E c \in DOMAIN ko_result :
                  /\ \E k \in 1..Len(ko_result[c]) : ko_result[c][k] = a
                  /\ \E k \in 1..Len(ko_result[c]) : ko_result[c][k] = b)
              <=> (Reaches(edges, a, b) /\ Reaches(edges, b, a))

(* find_sccs returned for the graph 0 -> 1, 1 -> 2, 2 -> 0, 2 -> 3: the
   components {0, 1, 2} and {3} *)
C16_Witness ==
    /\ pc = "ko_done"
    /\ edges = <<<<0, 1>>, <<1, 2>>, <<2, 0>>, <<2, 3>>>>
    /\ Len(ko_result) = 2

(* positions of a vertex in a list *)
PositionsOf(sq, v) == {k \in 1..Len(sq) : sq[k] = v}

(* C17: for a graph without directed cycle kahn_topological_sort returns
   every vertex 0..n-1 exactly once, and for every edge (u, v) the vertex u
   stands before v; parallel edges and isolated vertices included. *)
C17_KahnTopologicalOrder ==
    (pc = "ka_done" /\ ~HasCycle(edges)) =>
        /\ Len(ka_result) = n
        /\ \A v \in Vertices(n) : Cardinality(PositionsOf(ka_result, v)) = 1
        /\ \A k \in 1..Len(edges) :
              \A a \in PositionsOf(ka_result, edges[k][1]) :
                  \A b \in PositionsOf(ka_result, edges[k][2]) : a < b

(* an order was returned for a graph with two parallel edges and an isolated
   vertex, where a vertex with a larger number has to come first *)
C17_Witness ==
    /\ pc = "ka_done"
    /\ Len(ka_result) = n
    /\ \E j, k \in 1..Len(edges) : j # k /\ edges[j] = edges[k]
    /\ \E v \in Vertices(n) :
          \A k \in 1..Len(edges) : edges[k][1] # v /\ edges[k][2] # v
    /\ \E k \in 1..Len(edges) : edges[k][1] > edges[k][2]

(* C18: kahn_topological_sort returns the empty list exactly when the graph
   has a directed cycle (a self-loop is one); what it returns is empty or has
   n entries, never a shorter non-empty list. *)
C18_KahnCycleSignal ==
    pc = "ka_done" =>
        /\ ka_result = <<>> <=> HasCycle(edges)
        /\ Len(ka_result) \in {0, n}

(* the empty list was returned although some vertices had been ordered
   before the cycle stopped the loop *)
C18_Witness ==
    /\ pc = "ka_done"
    /\ ka_result = <<>>
    /\ Len(topo_order) >= 2

(* C19: is_cyclic returns True exactly when the graph has a directed cycle
   (a self-loop is one), wherever it lies, and so False for every graph
   without one. *)
C19_IsCyclic ==
    pc = "cy_done" => (cy_result = "True" <=> HasCycle(edges))

(* True was returned for a cycle that vertex 0 does not reach *)
C19_Witness ==
    /\ pc = "cy_done"
    /\ cy_result = "True"
    /\ ~HasCycle(SelectSeq(edges, LAMBDA e : e[1] \in ReachSet(edges, {0})))

(* False was returned for a graph where a vertex is reached along two
   different paths *)
C19_WitnessDiamond ==
    /\ pc = "cy_done"
    /\ cy_result = "False"
    /\ \E a, b, c \in Vertices(n) :
          /\ a # b /\ b # c /\ a # c
          /\ \E k \in 1..Len(edges) : edges[k] = <<a, b>>
          /\ \E k \in 1..Len(edges) : edges[k] = <<b, c>>
          /\ \E k \in 1..Len(edges) : edges[k] = <<a, c>>

----------------------------------------------------------------------------
(* Predecessor tables *)

(* the walk over par from v back to a vertex without parent, as the path
   from that vertex to v; <<>> when more than `steps` steps are needed *)
RECURSIVE ParentWalk(_, _, _)
ParentWalk(par, v, steps) ==
    IF par[v] = None THEN <<v>>
    ELSE IF steps = 0 THEN <<>>
    ELSE LET w == ParentWalk(par, par[v], steps - 1)
         IN  IF w = <<>> THEN <<>> ELSE Append(w, v)

(* for every vertex reachable from the source the walk over the parents ends
   at the source within n - 1 steps, repeats no vertex, follows edges of the
   graph, and the weights of its edges add up to distance[v] *)
PathsReconstruct ==
    \A v \in Vertices(n) :
        Reachable(n, edges, source, v) =>
            LET p == ParentWalk(parents, v, n - 1)
            IN  /\ p # <<>>
                /\ p[1] = source
                /\ parents[source] = None
                /\ \A i, j \in 1..Len(p) : i < j => p[i] # p[j]
                /\ \A i \in 1..(Len(p) - 1) :
                      /\ parents[p[i + 1]] = p[i]
                      /\ MinEdgeW(edges, p[i], p[i + 1]) # INF
                /\ PathWeight(edges, p) = distance[v]

(* C20: when bellman_ford has finished on a graph without reachable negative
   cycle, and when dijkstra has finished on a graph without negative weight,
   the parents lead from every reachable vertex back to the source in at most
   n - 1 steps over edges of the graph, without repeating a vertex, and the
   weights along that path add up to distance[v]. *)
C20_ParentsReconstructPaths ==
    /\ (pc = "dj_start" /\ ~NegCycleReachable(n, edges, source)) =>
           PathsReconstruct
    /\ (pc = "done" /\ NonNegative(edges)) => PathsReconstruct

(* dijkstra finished with a path of two edges that is lighter than the
   direct edge *)
C20_Witness ==
    /\ pc = "done"
    /\ NonNegative(edges)
    /\ \E v \in Vertices(n) :
          /\ Len(ParentWalk(parents, v, n - 1)) = 3
          /\ MinEdgeW(edges, source, v) # INF

(* bellman_ford finished with a path of two edges, one of negative weight,
   around a cycle of weight 0 *)
C20_WitnessBellmanFord ==
    /\ pc = "dj_start"
    /\ ~NegCycleReachable(n, edges, source)
    /\ \E v \in Vertices(n) :
          /\ Len(ParentWalk(parents, v, n - 1)) = 3
          /\ distance[v] < 0
    /\ \E c \in SimpleSeqs(n) : CycleWeight(edges, c) = 0 /\ Len(c) > 1

----------------------------------------------------------------------------
(* DisjointSet *)

(* the root of x's tree: the end of the walk over the parent pointers *)
RECURSIVE RootOf(_, _)
RootOf(par, x) == IF par[x] = x THEN x ELSE RootOf(par, par[x])

(* the nodes on the parent chain from x up to, not including, the root *)
RECURSIVE ChainOf(_, _)
ChainOf(par, x) == IF par[x] = x THEN {} ELSE {x} \cup ChainOf(par, par[x])

SameSet(par, a, b) == RootOf(par, a) = RootOf(par, b)

(* the last call was op with indices in range(n) *)
ValidCall(op) ==
    /\ ds_call.op = op
    /\ ds_call.x \in Vertices(n)
    /\ ds_call.y \in Vertices(n)

(* C21: find(x) returns the root of x's tree; afterwards every node that was
   on the parent chain from x to the root points to the root, every other
   parent and the rank array are unchanged, and the same find once more
   returns the same root and changes nothing. *)
C21_FindCompressesPath ==
    ValidCall("find") =>
        LET root == RootOf(ds_before.parent, ds_call.x)
        IN  /\ ~ds_err
            /\ ds_ret = root
            /\ \A y \in Vertices(n) :
                  parent[y] = IF y \in ChainOf(ds_before.parent, ds_call.x)
                              THEN root
                              ELSE ds_before.parent[y]
            /\ rank = ds_before.rank
            /\ DS_find(parent, ds_call.x) = <<root, parent>>

(* find was called on a node two steps below its root *)
C21_Witness ==
    /\ ValidCall("find")
    /\ Cardinality(ChainOf(ds_before.parent, ds_call.x)) = 2
    /\ parent # ds_before.parent

(* C22: union(x, y) on two different sets merges exactly these two: find
   gives equal roots afterwards exactly for the pairs of one set before and
   the pairs within the two merged sets; the root of lower rank hangs under
   the root of higher rank; on equal ranks the rank of the root that stays
   grows by 1, and no other rank changes. *)
C22_UnionMergesByRank ==
    (ValidCall("union")
        /\ ~SameSet(ds_before.parent, ds_call.x, ds_call.y)) =>
        LET old == ds_before.parent
            ru == RootOf(old, ds_call.x)
            rv == RootOf(old, ds_call.y)
            top == RootOf(parent, ds_call.x)
            low == IF top = ru THEN rv ELSE ru
        IN  /\ ~ds_err
            /\ \A a, b \in Vertices(n) :
                  SameSet(parent, a, b) <=>
                      \/ SameSet(old, a, b)
                      \/ {RootOf(old, a), RootOf(old, b)} \subseteq {ru, rv}
            /\ top \in {ru, rv}
            /\ parent[top] = top
            /\ parent[low] = top
            /\ ds_before.rank[low] <= ds_before.rank[top]
            /\ rank = IF ds_before.rank[low] = ds_before.rank[top]
                      THEN [ds_before.rank EXCEPT ![top] = @ + 1]
                      ELSE ds_before.rank

(* union joined two trees of different rank, the second one the higher *)
C22_Witness ==
    /\ ValidCall("union")
    /\ ~SameSet(ds_before.parent, ds_call.x, ds_call.y)
    /\ ds_before.rank[RootOf(ds_before.parent, ds_call.x)]
           < ds_before.rank[RootOf(ds_before.parent, ds_call.y)]
    /\ \E z \in Vertices(n) : ~SameSet(parent, z, ds_call.x)

(* C23, as the specification states it: union(x, y) on two elements of one
   set leaves the partition, the rank array and the parent array as they
   were. *)
C23_UnionSameSetNoOp ==
    (ValidCall("union")
        /\ SameSet(ds_before.parent, ds_call.x, ds_call.y)) =>
        /\ \A a, b \in Vertices(n) :
              SameSet(parent, a, b) <=> SameSet(ds_before.parent, a, b)
        /\ rank = ds_before.rank
        /\ parent = ds_before.parent

(* C23, amended: union(x, y) on two elements of one set leaves the partition
   and the rank array as they were; the parent array changes only by the
   path compression of its two find calls: the nodes on the parent chains of
   x and y point to their root, every other parent is unchanged. *)
C23_UnionSameSetKeepsPartition ==
    (ValidCall("union")
        /\ SameSet(ds_before.parent, ds_call.x, ds_call.y)) =>
        LET old == ds_before.parent
        IN  /\ ~ds_err
            /\ \A a, b \in Vertices(n) :
                  SameSet(parent, a, b) <=> SameSet(old, a, b)
            /\ rank = ds_before.rank
            /\ \A z \in Vertices(n) :
                  parent[z] =
                      IF z \in ChainOf(old, ds_call.x) \cup ChainOf(old, ds_call.y)
                      THEN RootOf(old, z)
                      ELSE old[z]

(* union was called on two different nodes of one set, one of them two steps
   below the root *)
C23_Witness ==
    /\ ValidCall("union")
    /\ ds_call.x # ds_call.y
    /\ SameSet(ds_before.parent, ds_call.x, ds_call.y)
    /\ Cardinality(ChainOf(ds_before.parent, ds_call.x)) = 2

(* C24, for DisjointSet.find and DisjointSet.union: a call with an index
   outside range(n), negative or from n on, raises IndexError and leaves the
   DisjointSet as it was. *)
C24_InvalidIndexFails ==
    (ds_call.op # "none"
        /\ (ds_call.x \notin Vertices(n) \/ ds_call.y \notin Vertices(n))) =>
        /\ ds_err
        /\ parent = ds_before.parent
        /\ rank = ds_before.rank

(* the walk over the parent pointers from x ends at a root within k steps *)
RECURSIVE EndsWithin(_, _, _)
EndsWithin(par, x, k) ==
    \/ par[x] = x
    \/ k > 0 /\ EndsWithin(par, par[x], k - 1)

(* C29: after any calls of union and find with indices of range(n), every
   node that is not a root has a smaller rank than its parent, and the walk
   over the parent pointers from any node ends at a root (within n - 1
   steps), so that find terminates. *)
C29_RankGrowsTowardsRoot ==
    pc = "ds" =>
        /\ \A x \in Vertices(n) :
              parent[x] # x => rank[x] < rank[parent[x]]
        /\ \A x \in Vertices(n) : EndsWithin(parent, x, n - 1)
        /\ \A x \in Vertices(n) : parent[x] \in Vertices(n)

(* a node of rank 1 hangs under a root of rank 2 and has a child itself *)
C29_Witness ==
    /\ pc = "ds"
    /\ \E x, y \in Vertices(n) :
          /\ parent[x] = y /\ x # y
          /\ parent[y] # y
          /\ rank[y] = 1
          /\ rank[parent[y]] = 2
----------------------------------------------------------------------------
(* dijkstra outside its precondition *)

(* the graph of the directed edge list es is the result of to_adj for some
   edge list: to_adj enters each of its edges at both ends, so its edges are
   among es and are half as many *)
BuiltByToAdj(es, g) ==
    /\ Len(es) >= 2
    /\ Len(es) % 2 = 0
    /\ \E half \in [1..(Len(es) \div 2) -> {es[i] : i \in 1..Len(es)}] :
          g = dijkstra_to_adj(half)

(* some edge of negative weight leaves a vertex reachable from s *)
NegEdgeReachable(nn, es, s) ==
    \E i \in 1..Len(es) : es[i][3] < 0 /\ Reachable(nn, es, s, es[i][1])

(* C25 as stated: on every graph with a negative edge dijkstra's loop comes
   to its end (it is never endless) and the table it returns differs from the
   table of the true shortest-path weights. *)
C25_NegativeEdgeWrongTable ==
    ~NonNegative(edges) =>
        /\ pc # "dj_unbounded"
        /\ pc = "done" => dj_result # RetTable(TrueTable(n, edges, source))

(* C25, amended: fed a graph with a negative edge, dijkstra returns exactly
   when no negative cycle is reachable from the source, and the table it then
   returns is the table of the true shortest-path weights; when a negative
   cycle is reachable from the source the loop never ends and nothing is
   returned, which for a graph built by to_adj is the case whenever a negative
   edge is reachable from the source.  (Every run comes either to the return
   or to the endless loop; which of the two is fixed by the graph.) *)
C25_NegativeEdgeOutcome ==
    /\ [](~NonNegative(edges) =>
            /\ pc = "done" =>
                  /\ ~NegCycleReachable(n, edges, source)
                  /\ dj_result = RetTable(TrueTable(n, edges, source))
                  /\ BuiltByToAdj(edges, graph) =>
                        ~NegEdgeReachable(n, edges, source)
            /\ pc = "dj_unbounded" =>
                  /\ NegCycleReachable(n, edges, source)
                  /\ dj_result = Pending)
    /\ <>(pc = "done" \/ pc = "dj_unbounded")

(* dijkstra returned a table with a negative entry: a negative edge was on a
   shortest path *)
C25_Witness ==
    /\ pc = "done"
    /\ ~NonNegative(edges)
    /\ \E v \in Vertices(n) : dj_result.table[v] < 0

(* the loop is endless on a graph built by to_adj from one negative edge *)
C25_WitnessToAdj ==
    /\ pc = "dj_unbounded"
    /\ BuiltByToAdj(edges, graph)
    /\ \E v \in Vertices(n) : distance[v] = INF

----------------------------------------------------------------------------
(* The distance table while dijkstra and bellman_ford run *)

(* longest walk that the tables are compared with: no run writes more often *)
WalkBound == MaxN * MaxEdges

(* the weights of the walks of at most k edges from s to each vertex *)
RECURSIVE WalkWeights(_, _, _, _)
WalkWeights(nn, es, s, k) ==
    IF k = 0 THEN [v \in Vertices(nn) |-> IF v = s THEN {0} ELSE {}]
    ELSE LET W == WalkWeights(nn, es, s, k - 1)
         IN  [v \in Vertices(nn) |->
                W[v] \cup UNION {{x + es[i][3] : x \in W[es[i][1]]} :
                                    i \in {j \in 1..Len(es) : es[j][2] = v}}]

(* the precondition of the function that runs in the state after the step *)
RunPrecondition ==
    IF pc' \in {"dj_loop", "dj_relax", "dj_unbounded", "done"}
    THEN NonNegative(edges)
    ELSE ~NegCycleReachable(n, edges, source)

(* a step that took the branch with the assignment to distance[v]: dijkstra
   pushes on the heap there, bellman_ford sets _updated *)
WriteStep ==
    \/ pc = "dj_relax" /\ Len(min_heap') > Len(min_heap)
    \/ pc = "bf_relax" /\ ~updated /\ updated'

(* C26: while dijkstra (no negative weight) or bellman_ford (no negative
   cycle reachable from the source) runs, every write to distance[v] strictly
   lowers the entry, distance[source] stays 0, and every finite distance[v]
   is the weight of a walk from the source to v in the graph, so never below
   the true shortest-path weight.  (An entry is compared when it is written;
   the tables the two functions start from can hold the weight of the empty
   walk only.) *)
C26_DistancesFallAlongWalks ==
    [][LET started == pc \notin {"bf_start", "dj_start"}
       IN  /\ (WriteStep /\ RunPrecondition) => distance' # distance
           /\ (distance' # distance /\ RunPrecondition) =>
                 /\ started => \A v \in Vertices(n) : distance'[v] <= distance[v]
                 /\ distance'[source] = 0
                 /\ \A v \in Vertices(n) :
                       (distance'[v] # INF
                          /\ (started => distance'[v] # distance[v])) =>
                          /\ distance'[v] \in
                                WalkWeights(n, edges, source,
                                    IF started THEN WalkBound ELSE 0)[v]
                          /\ distance'[v] >= TrueDist(n, edges, source, v)
      ]_vars

(* bellman_ford is in a pass with a tentative distance above the true one,
   and a later write will lower it *)
C26_Witness ==
    /\ pc = "bf_relax"
    /\ \E v \in Vertices(n) :
          /\ distance[v] < INF
          /\ distance[v] > TrueDist(n, edges, source, v)
    /\ ~NegCycleReachable(n, edges, source)

(* the same inside dijkstra's loop *)
C26_WitnessDijkstra ==
    /\ pc = "dj_relax"
    /\ NonNegative(edges)
    /\ \E v \in Vertices(n) :
          /\ distance[v] < INF
          /\ distance[v] > TrueDist(n, edges, source, v)

----------------------------------------------------------------------------
(* The two versions of bellman_ford *)

(* C27: for every edge list and source, bellman_ford with the break after a
   pass without updates (_2_Bellman_ford.py) returns what bellman_ford with
   all its V - 1 passes (_4_Johnson.py) returns: None, or the same table. *)
C27_EarlyExitSound ==
    pc = "dj_start" => bf_result = J_bellman_ford(n, edges, source)

(* bellman_ford left its loop after the second of three passes: the first
   pass updated an entry, the second none *)
C27_Witness ==
    /\ pc = "dj_start"
    /\ n = 4
    /\ pass = 2
    /\ ~updated
    /\ \E v \in Vertices(n) \ {source} : bf_result.table[v] < INF

----------------------------------------------------------------------------
(* The colours of is_cyclic *)

(* the vertices whose calls of dfs_util have not returned *)
OnStack(fr) == {fr[i][1] : i \in 1..Len(fr)}

(* some cycle can be reached from v *)
ReachesCycle(es, v) ==
    HasCycle(SelectSeq(es, LAMBDA e : e[1] \in ReachSet(es, {v})))

(* C28: in every state of is_cyclic before it returns True the GRAY vertices
   are exactly the vertices on the recursion stack of dfs_util and every
   out-neighbour of a BLACK vertex is BLACK; in every step a colour stays or
   moves from WHITE to GRAY or from GRAY to BLACK, and a vertex turns BLACK
   only when the call for it returns False, no cycle being reachable from
   it. *)
C28_ColourDiscipline ==
    /\ []((pc \in {"cy_loop", "cy_dfs", "cy_done"} /\ cy_result # "True") =>
            /\ {v \in Vertices(n) : color[v] = GRAY} = OnStack(frames)
            /\ \A k \in 1..Len(edges) :
                  color[edges[k][1]] = BLACK => color[edges[k][2]] = BLACK)
    /\ [][pc # "cy_start" =>
            \A v \in Vertices(n) :
               \/ color'[v] = color[v]
               \/ color[v] = WHITE /\ color'[v] = GRAY
               \/ /\ color[v] = GRAY
                  /\ color'[v] = BLACK
                  /\ cy_result' # "True"
                  /\ v \notin OnStack(frames')
                  /\ ~ReachesCycle(edges, v)
       ]_vars

(* two calls of dfs_util are open and an earlier one has returned for a
   vertex with an out-neighbour *)
C28_Witness ==
    /\ pc = "cy_dfs"
    /\ Len(frames) >= 2
    /\ \E k \in 1..Len(edges) : color[edges[k][1]] = BLACK

----------------------------------------------------------------------------
(* The order of the components *)

(* the positions in res of the lists that hold v *)
ListsOf(res, v) ==
    {c \in DOMAIN res : \E k \in 1..Len(res[c]) : res[c][k] = v}

(* C30: find_sccs returns the components in a topological order of the
   condensation: for every edge u -> v with u and v in different components
   the list of u stands before the list of v. *)
C30_ComponentsInTopologicalOrder ==
    pc = "ko_done" =>
        \A k \in 1..Len(edges) :
           \A cu \in ListsOf(ko_result, edges[k][1]) :
              \A cv \in ListsOf(ko_result, edges[k][2]) :
                 cu # cv => cu < cv

(* three components, one of two vertices, and an edge between components
   that goes from a higher to a lower vertex number, against the order of
   the first loop *)
C30_Witness ==
    /\ pc = "ko_done"
    /\ Len(ko_result) = 3
    /\ \E c \in DOMAIN ko_result : Len(ko_result[c]) = 2
    /\ \E k \in 1..Len(edges) :
          /\ edges[k][1] > edges[k][2]
          /\ ListsOf(ko_result, edges[k][1]) # ListsOf(ko_result, edges[k][2])

====
